---- MODULE Spec2Model ----
(***************************************************************************)
(* Meme Budget: the useLocalStorage persistence hook, the top-level        *)
(* collections held by App, and the Settings backup (export / import)      *)
(* handlers, modelled as one state machine.                                *)
(*                                                                         *)
(* JavaScript values are modelled as follows.                              *)
(*   - `undefined` (and an absent property) is the string Undefined.       *)
(*   - A string held by localStorage or by a file is a tuple:              *)
(*       <<"null">>      getItem returned null (no such key)               *)
(*       <<"empty">>     the empty string                                  *)
(*       <<"garbage">>   a string JSON.parse throws on                     *)
(*       <<"json", v>>   the JSON text of the value v                      *)
(*   - Ids made by crypto.randomUUID() are fresh integers.                 *)
(***************************************************************************)
EXTENDS Integers, Sequences, FiniteSets, TLC

\* ---------------------------------------------------------------- bounds
\* Transactions created through the form in one history.
MaxTx == 2
\* Events created through the form in one history.
MaxEvents == 2
\* File reads that may be in flight at the same time.
MaxPendingReads == 2
\* Warning counters saturate here.
MaxAlerts == 2
\* Page reloads in one history.
MaxReloads == 1
\* Categories added through the form in one history.
MaxCategories == 1
\* Transactions in a list handed to the views
MaxListed == 2

\* ------------------------------------------------------------- constants
Undefined == "undefined"

Keys ==
  {"language", "categories", "transactions", "budgets", "events", "theme",
   "notificationFrequency"}

\* The keys whose hooks live in LocalizationProvider and App, in the order
\* React runs their state initializers (parent first) ...
RenderOrder ==
  <<"language", "categories", "transactions", "budgets", "events", "theme">>

\* ... and the order React runs their effects after mount (children first).
EffectOrder ==
  <<"categories", "transactions", "budgets", "events", "theme", "language">>

DEFAULT_CATEGORIES ==
  << [id |-> "groceries",     name |-> "category_groceries"],
     [id |-> "transport",     name |-> "category_transport"],
     [id |-> "housing",       name |-> "category_housing"],
     [id |-> "entertainment", name |-> "category_entertainment"],
     [id |-> "health",        name |-> "category_health"],
     [id |-> "shopping",      name |-> "category_shopping"],
     [id |-> "food",          name |-> "category_food"],
     [id |-> "utilities",     name |-> "category_utilities"],
     [id |-> "other",         name |-> "category_other"] >>

\* Month keys (YYYY-MM) and dates (YYYY-MM-DD) of the model: a date is the
\* pair of its month key and its day.
PrevMonthKey == "2026-10"
CurrentMonthKey == "2026-11"
NextMonthKey == "2026-12"
Today == <<CurrentMonthKey, 4>>
LastMonth == <<PrevMonthKey, 15>>
NextMonth == <<NextMonthKey, 24>>

\* The order of the month keys (that of their strings).
MonthKeys == <<PrevMonthKey, CurrentMonthKey, NextMonthKey>>
MonthIndex(key) == CHOOSE i \in 1..Len(MonthKeys) : MonthKeys[i] = key

EmptyBudgets == [m \in {} |-> <<>>]

\* The caller-supplied default of every persisted key.
InitialValue(k) ==
  CASE k = "language"              -> "en"
    [] k = "categories"            -> DEFAULT_CATEGORIES
    [] k = "transactions"          -> <<>>
    [] k = "budgets"               -> EmptyBudgets
    [] k = "events"                -> <<>>
    [] k = "theme"                 -> "dark"
    [] k = "notificationFrequency" -> "monthly"

\* What a hook holds before its initializer has run (nothing: a placeholder
\* of the key's type that no initializer produces for the scalar keys).
Unset(k) ==
  CASE k \in {"language", "theme", "notificationFrequency"} -> "unset"
    [] k = "budgets" -> EmptyBudgets
    [] OTHER -> <<>>

\* --------------------------------------------------------- JSON and texts
NoItem == <<"null">>
EmptyText == <<"empty">>
Garbage == <<"garbage">>

JSON_stringify(v) == <<"json", v>>

\* JSON.parse throws a SyntaxError on these.
ParseThrows(text) == text[1] \in {"empty", "garbage"}

JSON_parse(text) == text[2]

\* JavaScript truthiness of the result of getItem: null and "" are falsy.
Truthy(item) == item[1] \notin {"null", "empty"}

VARIABLES
  storage,                \* window.localStorage: key -> text
  storageMode,            \* "ok", "full" (setItem throws) or "disabled"
  isStorageAvailable,     \* module flag: "null", "true" or "false"
  hasShownStorageWarning, \* module flag
  alertCount,             \* alerts shown in this process, per kind
  alerts,                 \* kinds of alert shown by the latest handler
  hookState,              \* key -> "unmounted", "initialised" or "mounted"
  storedValue,            \* key -> the hook's state (the in-memory value)
  mountPos,               \* steps of the initial mount already taken
  reloads,                \* page reloads so far
  lastSet,                \* key -> <<v>>: the value most recently set, if any
  availableThroughout,    \* no probe and no write has failed so far
  activeView,             \* App: the main view
  selectedEventId,        \* App: id of the event shown in detail, 0 = null
  transactionModalContext,\* App: [open, eventId], eventId 0 = undefined
  eventModal,             \* App: [open, edit]: isEventModalOpen, eventToEdit
  pendingReads,           \* texts of the files FileReader is still reading
  download,               \* text of the backup file just downloaded
  txCreated,              \* transactions created so far (next fresh id)
  eventsCreated,          \* events created so far (next fresh id)
  categoriesCreated,      \* categories created so far (the clock's ticks)
  localBudgets,           \* Settings: the budget fields, in key order
  currentMonthKey,        \* App: the month key taken at its latest render
  historyMonthKey,        \* History: the month key its memo was computed
                          \* with, "none" while History is not mounted
  clockMonth,             \* the month key of the wall clock
  lastOp                  \* the handler that ran last, and its input

hookVars ==
  <<storage, storageMode, isStorageAvailable, hasShownStorageWarning,
    alertCount, alerts, hookState, storedValue, mountPos, reloads, lastSet,
    availableThroughout>>

\* What a render computes from the clock and keeps until the next one.
renderVars == <<localBudgets, currentMonthKey, historyMonthKey, clockMonth>>

uiVars ==
  <<activeView, selectedEventId, transactionModalContext, eventModal,
    pendingReads, download, txCreated, eventsCreated, categoriesCreated,
    renderVars>>

vars == <<hookVars, uiVars, lastOp>>

\* The top-level collections, as App names them.
categories == storedValue["categories"]
transactions == storedValue["transactions"]
budgets == storedValue["budgets"]
events == storedValue["events"]
appTheme == storedValue["theme"]
locale == storedValue["language"]
notificationFrequency == storedValue["notificationFrequency"]

StorageModes == {"ok", "full", "disabled"}
\* The warnings of the hook, which alertCount counts.
AlertKinds == {"storageUnavailable", "corrupted", "writeFailed"}
NoAlerts == [a \in AlertKinds |-> 0]

Bump(count, shown) ==
  [a \in AlertKinds |->
     IF a \in shown /\ count[a] < MaxAlerts THEN count[a] + 1 ELSE count[a]]

\* ------------------------------------------------------ useLocalStorage
\* The part of the state the hook reads and writes, as a record that the
\* steps below thread through a handler.
HookEnv ==
  [storage |-> storage, avail |-> isStorageAvailable,
   warned |-> hasShownStorageWarning, shown |-> {}, ok |-> availableThroughout]

\* Variant: the probe runs at every call, whatever the flag holds.
CheckLocalStorageAvailabilityProbes(cached, mode) ==
  IF mode = "ok" THEN "true" ELSE "false"

\* checkLocalStorageAvailability: the cached flag, or the result of the
\* setItem/removeItem probe (which leaves the store as it found it).
CheckLocalStorageAvailability(cached, mode) ==
  IF cached # "null" THEN cached
  ELSE IF mode = "ok" THEN "true" ELSE "false"

\* The useState initializer of useLocalStorage(key, initialValue):
\* the hook environment after it, and the initial state it returns.
\* Variant: the stored string is parsed but the default is returned.
StateInitializerMutant(h, key, initialValue, mode) ==
  LET avail == CheckLocalStorageAvailability(h.avail, mode)
      item == h.storage[key]
  IN IF avail = "false"
     THEN [h |-> [h EXCEPT !.avail = avail, !.warned = TRUE, !.ok = FALSE,
                           !.shown = IF h.warned THEN @
                                     ELSE @ \cup {"storageUnavailable"}],
           value |-> initialValue]
     ELSE IF ~Truthy(item)
     THEN [h |-> [h EXCEPT !.avail = avail], value |-> initialValue]
     ELSE IF ParseThrows(item)
     THEN [h |-> [h EXCEPT !.avail = avail, !.shown = @ \cup {"corrupted"}],
           value |-> initialValue]
     ELSE [h |-> [h EXCEPT !.avail = avail], value |-> initialValue]

\* Variant: the store is read without asking whether it is available.
StateInitializerReadsAnyway(h, key, initialValue, mode) ==
  LET avail == CheckLocalStorageAvailability(h.avail, mode)
      item == h.storage[key]
  IN IF ~Truthy(item)
     THEN [h |-> [h EXCEPT !.avail = avail], value |-> initialValue]
     ELSE IF ParseThrows(item)
     THEN [h |-> [h EXCEPT !.avail = avail, !.shown = @ \cup {"corrupted"}],
           value |-> initialValue]
     ELSE [h |-> [h EXCEPT !.avail = avail], value |-> JSON_parse(item)]

\* Variant: a string that does not decode makes the hook clear the store.
StateInitializerClears(h, key, initialValue, mode) ==
  LET avail == CheckLocalStorageAvailability(h.avail, mode)
      item == h.storage[key]
  IN IF avail = "false"
     THEN [h |-> [h EXCEPT !.avail = avail, !.warned = TRUE, !.ok = FALSE,
                           !.shown = IF h.warned THEN @
                                     ELSE @ \cup {"storageUnavailable"}],
           value |-> initialValue]
     ELSE IF ~Truthy(item)
     THEN [h |-> [h EXCEPT !.avail = avail], value |-> initialValue]
     ELSE IF ParseThrows(item)
     THEN [h |-> [h EXCEPT !.avail = avail, !.shown = @ \cup {"corrupted"},
                           !.storage = [k \in Keys |-> NoItem]],
           value |-> initialValue]
     ELSE [h |-> [h EXCEPT !.avail = avail], value |-> JSON_parse(item)]

\* Variant: the unavailable store is announced for every key.
StateInitializerWarnsEachKey(h, key, initialValue, mode) ==
  LET avail == CheckLocalStorageAvailability(h.avail, mode)
      item == h.storage[key]
  IN IF avail = "false"
     THEN [h |-> [h EXCEPT !.avail = avail, !.warned = TRUE, !.ok = FALSE,
                           !.shown = @ \cup {"storageUnavailable"}],
           value |-> initialValue]
     ELSE IF ~Truthy(item)
     THEN [h |-> [h EXCEPT !.avail = avail], value |-> initialValue]
     ELSE IF ParseThrows(item)
     THEN [h |-> [h EXCEPT !.avail = avail, !.shown = @ \cup {"corrupted"}],
           value |-> initialValue]
     ELSE [h |-> [h EXCEPT !.avail = avail], value |-> JSON_parse(item)]

\* The initializer as the source has it.
StateInitializer(h, key, initialValue, mode) ==
  LET avail == CheckLocalStorageAvailability(h.avail, mode)
      item == h.storage[key]
  IN IF avail = "false"
     THEN [h |-> [h EXCEPT !.avail = avail, !.warned = TRUE, !.ok = FALSE,
                           !.shown = IF h.warned THEN @
                                     ELSE @ \cup {"storageUnavailable"}],
           value |-> initialValue]
     ELSE IF ~Truthy(item)
     THEN [h |-> [h EXCEPT !.avail = avail], value |-> initialValue]
     ELSE IF ParseThrows(item)
     THEN [h |-> [h EXCEPT !.avail = avail, !.shown = @ \cup {"corrupted"}],
           value |-> initialValue]
     ELSE [h |-> [h EXCEPT !.avail = avail], value |-> JSON_parse(item)]

\* The write effect of useLocalStorage, run after a render in which the
\* hook's state is a new value: the hook environment after it.
\* Variant: the transactions key is never written.
WriteEffectMutant(h, key, value, mode) ==
  LET avail == CheckLocalStorageAvailability(h.avail, mode)
  IN IF avail = "false" THEN [h EXCEPT !.avail = avail, !.ok = FALSE]
     ELSE IF mode # "ok"
     THEN [h EXCEPT !.avail = avail, !.ok = FALSE,
                    !.shown = @ \cup {"writeFailed"}]
     ELSE IF key = "transactions" THEN [h EXCEPT !.avail = avail]
     ELSE [h EXCEPT !.avail = avail, !.storage[key] = JSON_stringify(value)]

\* Variant: a stored string that does not decode is left as it is.
WriteEffectKeepsCorrupted(h, key, value, mode) ==
  LET avail == CheckLocalStorageAvailability(h.avail, mode)
  IN IF avail = "false" THEN [h EXCEPT !.avail = avail, !.ok = FALSE]
     ELSE IF mode # "ok"
     THEN [h EXCEPT !.avail = avail, !.ok = FALSE,
                    !.shown = @ \cup {"writeFailed"}]
     ELSE IF ParseThrows(h.storage[key]) THEN [h EXCEPT !.avail = avail]
     ELSE [h EXCEPT !.avail = avail, !.storage[key] = JSON_stringify(value)]

\* The effect as the source has it.
WriteEffect(h, key, value, mode) ==
  LET avail == CheckLocalStorageAvailability(h.avail, mode)
  IN IF avail = "false" THEN [h EXCEPT !.avail = avail, !.ok = FALSE]
     ELSE IF mode # "ok"
     THEN [h EXCEPT !.avail = avail, !.ok = FALSE,
                    !.shown = @ \cup {"writeFailed"}]
     ELSE [h EXCEPT !.avail = avail, !.storage[key] = JSON_stringify(value)]

\* The effects of the keys in ks (a sequence, in hook order), each writing
\* the value that vals holds for it.
RECURSIVE RunEffects(_, _, _, _)
RunEffects(h, ks, vals, mode) ==
  IF ks = <<>> THEN h
  ELSE RunEffects(WriteEffect(h, Head(ks), vals[Head(ks)], mode),
                  Tail(ks), vals, mode)

\* The variables of the hook after a handler that left the environment h.
Settle(h) ==
  /\ storage' = h.storage
  /\ isStorageAvailable' = h.avail
  /\ hasShownStorageWarning' = h.warned
  /\ alerts' = h.shown
  /\ alertCount' = Bump(alertCount, h.shown)
  /\ availableThroughout' = h.ok

\* The descriptor of a handler run: its name, the key or category it was
\* given, the event or transaction id, the file text, and whether the user
\* confirmed (or the input was accepted).
NoText == <<"none">>
Op(name, str, id, text, ok) ==
  [op |-> name, str |-> str, id |-> id, text |-> text, ok |-> ok]

\* --------------------------------------------------------- initial mount
MountSteps == Len(RenderOrder) + Len(EffectOrder)
Mounted == mountPos = MountSteps

\* Render of LocalizationProvider and App: the next hook's initializer.
HookInit ==
  /\ mountPos < Len(RenderOrder)
  /\ LET k == RenderOrder[mountPos + 1]
         r == StateInitializer(HookEnv, k, InitialValue(k), storageMode)
     IN /\ Settle(r.h)
        /\ storedValue' = [storedValue EXCEPT ![k] = r.value]
        /\ hookState' = [hookState EXCEPT ![k] = "initialised"]
  /\ mountPos' = mountPos + 1
  /\ lastOp' = Op("init", RenderOrder[mountPos + 1], 0, NoText, TRUE)
  /\ UNCHANGED <<storageMode, lastSet, reloads, uiVars>>

\* After the first commit: the next hook's write effect.
HookEffect ==
  /\ mountPos >= Len(RenderOrder)
  /\ mountPos < MountSteps
  /\ LET k == EffectOrder[mountPos - Len(RenderOrder) + 1]
     IN /\ Settle(WriteEffect(HookEnv, k, storedValue[k], storageMode))
        /\ hookState' = [hookState EXCEPT ![k] = "mounted"]
  /\ mountPos' = mountPos + 1
  /\ LET k == EffectOrder[mountPos - Len(RenderOrder) + 1]
     IN /\ lastSet' = [lastSet EXCEPT ![k] = <<storedValue[k]>>]
        /\ lastOp' = Op("effect", k, 0, NoText, TRUE)
  /\ UNCHANGED <<storageMode, storedValue, reloads, uiVars>>

\* ------------------------------------------------------------ helpers
Ids(list) == {list[i].id : i \in 1..Len(list)}

RECURSIVE MapCategory(_, _, _)
\* prev.map(t => t.categoryId === categoryId ? {...t, categoryId: to} : t)
MapCategory(list, categoryId, to) ==
  IF list = <<>> THEN <<>>
  ELSE <<IF Head(list).categoryId = categoryId
         THEN [Head(list) EXCEPT !.categoryId = to]
         ELSE Head(list)>> \o MapCategory(Tail(list), categoryId, to)

\* App: transactions.filter(t => !t.eventId), of a transaction list.
\* Variant: nothing is filtered out.
MainTransactionsUnfiltered(txs) == txs

\* The filter as the source has it.
MainTransactions(txs) == SelectSeq(txs, LAMBDA t: t.eventId = 0)

\* App: the memo mainTransactions of the state.
mainTransactions == MainTransactions(transactions)

\* App: mainTransactions.filter(t => t.date.startsWith(currentMonthKey))
CurrentMonthTransactionsAt(txs, key) ==
  SelectSeq(MainTransactions(txs), LAMBDA t: t.date[1] = key)

\* The same with the month key of App's latest render.
CurrentMonthTransactions(txs) ==
  CurrentMonthTransactionsAt(txs, currentMonthKey)

currentMonthTransactions == CurrentMonthTransactions(transactions)

\* App: budgets[currentMonthKey] || []
CurrentMonthBudget(buds) ==
  IF currentMonthKey \in DOMAIN buds THEN buds[currentMonthKey] ELSE <<>>

currentMonthBudget == CurrentMonthBudget(budgets)

\* ------------------------------------------------------------------ views
\* list.reduce((sum, t) => sum + t.amount, sum)
RECURSIVE SumAmounts(_, _)
SumAmounts(list, sum) ==
  IF list = <<>> THEN sum
  ELSE SumAmounts(Tail(list), sum + Head(list).amount)

OfType(list, type) == SelectSeq(list, LAMBDA t: t.type = type)

\* Dashboard: the memo of totalIncome, totalExpenses and balance.
\* Variant: the balance adds the expenses.
DashboardTotalsMutant(list) ==
  LET income == SumAmounts(OfType(list, "income"), 0)
      expenses == SumAmounts(OfType(list, "expense"), 0)
  IN [totalIncome |-> income, totalExpenses |-> expenses,
      balance |-> income + expenses]

\* The memo as the source has it.
DashboardTotals(list) ==
  LET income == SumAmounts(OfType(list, "income"), 0)
      expenses == SumAmounts(OfType(list, "expense"), 0)
  IN [totalIncome |-> income, totalExpenses |-> expenses,
      balance |-> income - expenses]

\* Settings: the memo totalIncome.
SettingsTotalIncome(list) == SumAmounts(OfType(list, "income"), 0)

\* Analytics: budget.find(b => b.categoryId === category.id)?.amount || 0
CategoryBudget(budget, categoryId) ==
  LET found == {i \in 1..Len(budget) : budget[i].categoryId = categoryId}
  IN IF found = {} THEN 0
     ELSE budget[CHOOSE i \in found : \A j \in found : i <= j].amount

\* Analytics: the spent amount of a category among the expenses.
CategorySpent(expenses, categoryId) ==
  SumAmounts(SelectSeq(expenses, LAMBDA e: e.categoryId = categoryId), 0)

\* Analytics: the row of one category (its colour left out).
SpendingRow(category, budget, expenses) ==
  [name |-> category.name,
   spent |-> CategorySpent(expenses, category.id),
   budget |-> CategoryBudget(budget, category.id)]

\* Analytics: .filter(d => d.budget > 0 || d.spent > 0)
\* Variant: only categories with a budget are kept.
HasActivityMutant(d) == d.budget > 0

\* The filter as the source has it.
HasActivity(d) == d.budget > 0 \/ d.spent > 0

\* Analytics: the comparator of the sort is percentB - percentA; a row sorts
\* before another when its share of the budget is strictly greater, where a
\* row without budget counts as Infinity if it has spending and as 0 if not
\* (Infinity - Infinity is NaN, which the sort takes for equal).
Unbounded(d) == d.budget <= 0 /\ d.spent > 0
PercentNum(d) == IF d.budget > 0 THEN d.spent ELSE 0
PercentDen(d) == IF d.budget > 0 THEN d.budget ELSE 1
SortsBefore(a, b) ==
  IF Unbounded(a) THEN ~Unbounded(b)
  ELSE /\ ~Unbounded(b)
       /\ PercentNum(a) * PercentDen(b) > PercentNum(b) * PercentDen(a)

\* Array.prototype.sort with that comparator (a stable sort): x is put in
\* front of the first row it sorts before.
RECURSIVE InsertRow(_, _)
InsertRow(sorted, x) ==
  IF sorted = <<>> THEN <<x>>
  ELSE IF SortsBefore(x, Head(sorted)) THEN <<x>> \o sorted
  ELSE <<Head(sorted)>> \o InsertRow(Tail(sorted), x)

RECURSIVE SortRows(_, _)
SortRows(rows, sorted) ==
  IF rows = <<>> THEN sorted
  ELSE SortRows(Tail(rows), InsertRow(sorted, Head(rows)))

\* Analytics: the memo spendingData (map, filter, sort).
SpendingData(list, budget, cats) ==
  LET expenses == OfType(list, "expense")
      rows == [i \in 1..Len(cats) |-> SpendingRow(cats[i], budget, expenses)]
  IN SortRows(SelectSeq(rows, HasActivity), <<>>)

\* Analytics: isOverBudget and percentage of a row, as rendered.  The
\* quotient is exact for the budgets of the model.
RowOverBudget(d) == d.budget > 0 /\ d.spent > d.budget
RowPercentage(d) ==
  IF d.budget > 0
  THEN (IF d.spent * 100 > 100 * d.budget THEN 100
        ELSE (d.spent * 100) \div d.budget)
  ELSE IF d.spent > 0 THEN 100 ELSE 0

\* History: the memo historicalData computed with the month key `key`, as a
\* function from the month keys other than that one that occur in the list
\* to the month's income, expenses and transactions.  (The months of the
\* model have one day each, so the stable sort by date leaves each month's
\* transactions in order.)
HistoricalDataAt(list, key) ==
  LET months == {list[i].date[1] : i \in 1..Len(list)} \ {key}
  IN [m \in months |->
        LET of == SelectSeq(list, LAMBDA t: t.date[1] = m)
        IN [income |-> SumAmounts(OfType(of, "income"), 0),
            expenses |-> SumAmounts(SelectSeq(of, LAMBDA t: t.type # "income"),
                                    0),
            transactions |-> of]]

\* The month key of the memo of History: the one it was computed with, or,
\* while History is not mounted, the one it would be computed with.
HistoryKey == IF historyMonthKey = "none" THEN clockMonth ELSE historyMonthKey

\* Variant: the current month is not skipped.
HistoricalDataMutant(list) ==
  LET months == {list[i].date[1] : i \in 1..Len(list)}
  IN [m \in months |->
        LET of == SelectSeq(list, LAMBDA t: t.date[1] = m)
        IN [income |-> SumAmounts(OfType(of, "income"), 0),
            expenses |-> SumAmounts(SelectSeq(of, LAMBDA t: t.type # "income"),
                                    0),
            transactions |-> of]]

\* The memo as History holds it.
HistoricalData(list) == HistoricalDataAt(list, HistoryKey)

\* Events.getEventSpent
GetEventSpent(txs, eventId) ==
  SumAmounts(SelectSeq(txs, LAMBDA t: t.eventId = eventId), 0)

\* Variant: the percentage is not capped by Math.min.
EventProgressUncapped(spent, budget) ==
  [spent |-> spent,
   remaining |-> budget - spent,
   percentage |-> IF budget > 0 THEN (spent * 100) \div budget ELSE 0,
   isOverBudget |-> spent > budget]

\* Events and EventDetail: remaining, percentage and isOverBudget of an
\* event (the same three lines in both components).
EventProgress(spent, budget) ==
  [spent |-> spent,
   remaining |-> budget - spent,
   percentage |-> IF budget > 0
                  THEN (IF spent * 100 > 100 * budget THEN 100
                        ELSE (spent * 100) \div budget)
                  ELSE 0,
   isOverBudget |-> spent > budget]

\* Events: the card of an event in the list, from all transactions.
EventCard(txs, event) == EventProgress(GetEventSpent(txs, event.id), event.budget)

\* App.renderView and EventDetail: the summary of the selected event, from
\* transactions.filter(t => t.eventId === selectedEventId).
EventDetailSummary(txs, event) ==
  EventProgress(SumAmounts(SelectSeq(txs, LAMBDA t: t.eventId = event.id), 0),
                event.budget)

\* What each view computes from the transactions of the state.
DashboardView(txs) == DashboardTotals(CurrentMonthTransactions(txs))
AnalyticsView(txs, buds, cats) ==
  SpendingData(CurrentMonthTransactions(txs), CurrentMonthBudget(buds), cats)
HistoryView(txs) == HistoricalData(MainTransactions(txs))
SettingsView(txs) == SettingsTotalIncome(MainTransactions(txs))

\* App.renderView shows Settings when no event is selected.
SettingsRendered(view, sel) == sel = 0 /\ view = "settings"

Views == {"dashboard", "analytics", "settings", "history", "events"}

EffectOrderAll == <<"notificationFrequency">> \o EffectOrder

\* The end of every handler: React re-renders with the new state vals, the
\* view and the selection; renderView drops a selection whose event is gone;
\* Settings mounts (its hook initialises and writes) or unmounts; and the
\* write effect runs for every key in touched, whose state is a new value.
\* The budget fields of Settings are an object keyed by category id, held
\* here as the sequence of its entries in key order.  Setting a key
\* overwrites its entry where it stands or adds one at the end.
\* Variant: setting a key always adds an entry.
SetFieldAppends(fields, categoryId, amount) ==
  Append(fields, [categoryId |-> categoryId, amount |-> amount])

\* acc[categoryId] = amount, {...prev, [categoryId]: newAmount}
SetField(fields, categoryId, amount) ==
  IF \E i \in 1..Len(fields) : fields[i].categoryId = categoryId
  THEN [i \in 1..Len(fields) |->
          IF fields[i].categoryId = categoryId
          THEN [fields[i] EXCEPT !.amount = amount] ELSE fields[i]]
  ELSE Append(fields, [categoryId |-> categoryId, amount |-> amount])

\* Settings: the effect that copies the budget prop into the fields,
\* budget.reduce((acc, b) => { acc[b.categoryId] = b.amount; ... }, {})
RECURSIVE BudgetMap(_, _)
BudgetMap(budget, acc) ==
  IF budget = <<>> THEN acc
  ELSE BudgetMap(Tail(budget),
                 SetField(acc, Head(budget).categoryId, Head(budget).amount))

\* App: budgets[key] || []
CurrentMonthBudgetAt(buds, key) ==
  IF key \in DOMAIN buds THEN buds[key] ELSE <<>>

HistoryRendered(view, sel) == sel = 0 /\ view = "history"

\* A render of App with the state vals, the view and the selection, after
\* the keys in touched were set: App takes the month key from the clock; the
\* fields of Settings are copied from the budget prop when Settings mounts
\* and when the prop is a new array (the budgets were set, or the month key
\* is another), and are gone when it unmounts; History computes its memo,
\* with the clock's month key, when it mounts and when the transactions
\* were set.
Render(vals, touched, view, sel) ==
  LET wasSettings == SettingsRendered(activeView, selectedEventId)
      nowSettings == SettingsRendered(view, sel)
      wasHistory == HistoryRendered(activeView, selectedEventId)
      nowHistory == HistoryRendered(view, sel)
  IN /\ currentMonthKey' = clockMonth
     /\ localBudgets' =
          IF ~nowSettings THEN <<>>
          ELSE IF ~wasSettings \/ "budgets" \in touched
                  \/ currentMonthKey # clockMonth
          THEN BudgetMap(CurrentMonthBudgetAt(vals["budgets"], clockMonth),
                         <<>>)
          ELSE localBudgets
     /\ historyMonthKey' =
          IF ~nowHistory THEN "none"
          ELSE IF ~wasHistory \/ "transactions" \in touched THEN clockMonth
          ELSE historyMonthKey
     /\ UNCHANGED clockMonth

Commit(vals, touched, view, sel) ==
  LET nf == "notificationFrequency"
      sel2 == IF sel # 0 /\ sel \notin Ids(vals["events"]) THEN 0 ELSE sel
      was == SettingsRendered(activeView, selectedEventId)
      now == SettingsRendered(view, sel2)
      r == StateInitializer(HookEnv, nf, InitialValue(nf), storageMode)
      vals2 == IF now /\ ~was THEN [vals EXCEPT ![nf] = r.value]
               ELSE IF was /\ ~now THEN [vals EXCEPT ![nf] = Unset(nf)]
               ELSE vals
      touched2 == IF now /\ ~was THEN touched \cup {nf} ELSE touched
      ks == SelectSeq(EffectOrderAll, LAMBDA k: k \in touched2)
      h0 == IF now /\ ~was THEN r.h ELSE HookEnv
  IN /\ Settle(RunEffects(h0, ks, vals2, storageMode))
     /\ storedValue' = vals2
     /\ hookState' = [hookState EXCEPT
                        ![nf] = IF now THEN "mounted" ELSE "unmounted"]
     /\ lastSet' = [k \in Keys |->
                      IF k \in touched2 THEN <<vals2[k]>> ELSE lastSet[k]]
     /\ activeView' = view
     /\ selectedEventId' = sel2
     /\ IF touched2 = {} /\ view = activeView /\ sel2 = selectedEventId
        THEN UNCHANGED renderVars   \* no state was changed: no render
        ELSE Render(vals2, touched2, view, sel2)
     /\ UNCHANGED <<storageMode, mountPos, reloads>>

\* A modal covers the whole window: while one is open only its own controls
\* can be used.
NoModal == ~transactionModalContext.open /\ ~eventModal.open
ClosedContext == [open |-> FALSE, eventId |-> 0]
ClosedEventModal == [open |-> FALSE, edit |-> 0]

\* ------------------------------------------------------------ navigation
\* App.handleSetView
\* Variant: the selection is kept.
HandleSetViewKeeps(view) ==
  /\ Mounted /\ NoModal
  /\ Commit(storedValue, {}, view, selectedEventId)
  /\ lastOp' = Op("setView", view, 0, NoText, TRUE)
  /\ UNCHANGED <<transactionModalContext, eventModal, pendingReads, download,
                 txCreated, eventsCreated, categoriesCreated>>

\* The handler as the source has it.
HandleSetView(view) ==
  /\ Mounted /\ NoModal
  /\ Commit(storedValue, {}, view, 0)
  /\ lastOp' = Op("setView", view, 0, NoText, TRUE)
  /\ UNCHANGED <<transactionModalContext, eventModal, pendingReads, download,
                 txCreated, eventsCreated, categoriesCreated>>

\* Events: onSelectEvent = setSelectedEventId
OnSelectEvent(eventId) ==
  /\ Mounted /\ NoModal
  /\ activeView = "events" /\ selectedEventId = 0
  /\ eventId \in Ids(events)
  /\ Commit(storedValue, {}, activeView, eventId)
  /\ lastOp' = Op("selectEvent", "", eventId, NoText, TRUE)
  /\ UNCHANGED <<transactionModalContext, eventModal, pendingReads, download,
                 txCreated, eventsCreated, categoriesCreated>>

\* EventDetail: onBack
OnBack ==
  /\ Mounted /\ NoModal
  /\ selectedEventId # 0
  /\ Commit(storedValue, {}, activeView, 0)
  /\ lastOp' = Op("back", "", 0, NoText, TRUE)
  /\ UNCHANGED <<transactionModalContext, eventModal, pendingReads, download,
                 txCreated, eventsCreated, categoriesCreated>>

\* ---------------------------------------------------------- scalar keys
Frequencies == {"monthly", "weekly", "daily", "never"}

\* ThemeToggle.toggleTheme: the theme the toggle switches to.
NextTheme(theme) ==
  IF theme = "light" THEN "dark"
  ELSE IF theme = "dark" THEN "rose"
  ELSE "light"

\* ThemeToggle (in SideNav and in the mobile header): setTheme = setAppTheme,
\* a direct set.
ToggleTheme ==
  /\ Mounted /\ NoModal
  /\ Commit([storedValue EXCEPT !["theme"] = NextTheme(appTheme)], {"theme"},
            activeView, selectedEventId)
  /\ lastOp' = Op("setTheme", NextTheme(appTheme), 0, NoText, TRUE)
  /\ UNCHANGED <<transactionModalContext, eventModal, pendingReads, download,
                 txCreated, eventsCreated, categoriesCreated>>

\* Settings: the notification dropdown, setNotificationFrequency
SetNotificationFrequency(f) ==
  /\ Mounted /\ NoModal
  /\ SettingsRendered(activeView, selectedEventId)
  /\ f \in Frequencies /\ f # notificationFrequency
  /\ Commit([storedValue EXCEPT !["notificationFrequency"] = f],
            {"notificationFrequency"}, activeView, selectedEventId)
  /\ lastOp' = Op("setFrequency", f, 0, NoText, TRUE)
  /\ UNCHANGED <<transactionModalContext, eventModal, pendingReads, download,
                 txCreated, eventsCreated, categoriesCreated>>

\* ---------------------------------------------------------- transactions

\* SideNav.openModal and the floating button: setTransactionModalContext({}),
\* eventId 0; EventDetail.onAddExpense: setTransactionModalContext({eventId})
\* with the selected event.
OpenTransactionModal(eventId) ==
  /\ Mounted /\ NoModal
  /\ eventId \in {0, selectedEventId}
  /\ transactionModalContext' = [open |-> TRUE, eventId |-> eventId]
  /\ alerts' = {}
  /\ lastOp' = Op("openModal", "", eventId, NoText, TRUE)
  /\ Render(storedValue, {}, activeView, selectedEventId)
  /\ UNCHANGED <<storage, storageMode, isStorageAvailable,
                 hasShownStorageWarning, alertCount, hookState, storedValue,
                 mountPos, reloads, lastSet, availableThroughout,
                 activeView, selectedEventId, eventModal, pendingReads, download,
                 txCreated, eventsCreated, categoriesCreated>>

\* AddTransactionModal: onClose
CloseTransactionModal ==
  /\ Mounted /\ transactionModalContext.open
  /\ transactionModalContext' = ClosedContext
  /\ alerts' = {}
  /\ lastOp' = Op("closeModal", "", 0, NoText, TRUE)
  /\ Render(storedValue, {}, activeView, selectedEventId)
  /\ UNCHANGED <<storage, storageMode, isStorageAvailable,
                 hasShownStorageWarning, alertCount, hookState, storedValue,
                 mountPos, reloads, lastSet, availableThroughout,
                 activeView, selectedEventId, eventModal, pendingReads, download,
                 txCreated, eventsCreated, categoriesCreated>>

\* The message AddTransactionModal.handleSubmit rejects the form with, or
\* "" when it accepts it.  parsedAmount 0 stands for every amount that is
\* NaN or not positive; description is the trimmed text.
\* Variant: an amount of zero is accepted.
SubmitErrorMutant(type, parsedAmount, description, categoryId) ==
  IF parsedAmount < 0 THEN "errorAmount"
  ELSE IF description = "" THEN "errorDescription"
  ELSE IF type = "expense" /\ categoryId = "" THEN "errorCategory"
  ELSE ""

\* The validation as the source has it.
SubmitError(type, parsedAmount, description, categoryId) ==
  IF parsedAmount <= 0 THEN "errorAmount"
  ELSE IF description = "" THEN "errorDescription"
  ELSE IF type = "expense" /\ categoryId = "" THEN "errorCategory"
  ELSE ""

\* AddTransactionModal.handleSubmit, then App.addTransaction and onClose.
HandleSubmit(type, parsedAmount, description, date, categoryId) ==
  /\ Mounted /\ transactionModalContext.open
  /\ transactionModalContext.eventId # 0 => type = "expense"
  /\ categoryId \in Ids(categories) \cup {""}
  /\ LET err == SubmitError(type, parsedAmount, description, categoryId)
         newTransaction ==
           [id |-> txCreated + 1, type |-> type, amount |-> parsedAmount,
            description |-> description, date |-> date,
            categoryId |-> IF type = "expense" THEN categoryId ELSE Undefined,
            eventId |-> transactionModalContext.eventId]
     IN IF err # ""
        THEN /\ alerts' = {err}
             /\ lastOp' = Op("submit", err, 0, NoText, FALSE)
             /\ UNCHANGED <<storage, storageMode, isStorageAvailable,
                            hasShownStorageWarning, alertCount, hookState,
                            storedValue, mountPos, reloads, lastSet,
                            availableThroughout, renderVars,
                            activeView, selectedEventId,
                            transactionModalContext, txCreated>>
        ELSE /\ txCreated < MaxTx
             /\ Commit([storedValue EXCEPT
                          !["transactions"] = Append(@, newTransaction)],
                       {"transactions"}, activeView, selectedEventId)
             /\ transactionModalContext' = ClosedContext
             /\ txCreated' = txCreated + 1
             /\ lastOp' = Op("submit", "", txCreated + 1, NoText, TRUE)
  /\ UNCHANGED <<eventModal, pendingReads, download, eventsCreated, categoriesCreated>>

\* The transactions a view lists with a delete control: the dashboard those
\* of the current month, the history those of other months (both without
\* event transactions).  The event detail lists its transactions without
\* one.
Listed(t) ==
  /\ selectedEventId = 0
  /\ t.eventId = 0
  /\ \/ activeView = "dashboard" /\ t.date[1] = currentMonthKey
     \/ activeView = "history" /\ t.date[1] # HistoryKey

\* App.deleteTransaction
DeleteTransaction(transactionId) ==
  /\ Mounted /\ NoModal
  /\ \E i \in 1..Len(transactions) :
       transactions[i].id = transactionId /\ Listed(transactions[i])
  /\ Commit([storedValue EXCEPT !["transactions"] =
               SelectSeq(@, LAMBDA t: t.id # transactionId)],
            {"transactions"}, activeView, selectedEventId)
  /\ lastOp' = Op("deleteTransaction", "", transactionId, NoText, TRUE)
  /\ UNCHANGED <<transactionModalContext, eventModal, pendingReads, download,
                 txCreated, eventsCreated, categoriesCreated>>

\* ----------------------------------------------------------------- events
\* App.handleOpenEventModal: edit is the id of eventToEdit, 0 for null.
HandleOpenEventModal(edit) ==
  /\ Mounted /\ NoModal
  /\ \/ selectedEventId = 0 /\ activeView = "events"
          /\ edit \in Ids(events) \cup {0}
     \/ selectedEventId # 0 /\ edit = selectedEventId
  /\ eventModal' = [open |-> TRUE, edit |-> edit]
  /\ alerts' = {}
  /\ lastOp' = Op("openEventModal", "", edit, NoText, TRUE)
  /\ Render(storedValue, {}, activeView, selectedEventId)
  /\ UNCHANGED <<storage, storageMode, isStorageAvailable,
                 hasShownStorageWarning, alertCount, hookState, storedValue,
                 mountPos, reloads, lastSet, availableThroughout,
                 activeView, selectedEventId, transactionModalContext, pendingReads,
                 download, txCreated, eventsCreated, categoriesCreated>>

\* AddEventModal: onClose
CloseEventModal ==
  /\ Mounted /\ eventModal.open
  /\ eventModal' = ClosedEventModal
  /\ alerts' = {}
  /\ lastOp' = Op("closeEventModal", "", 0, NoText, TRUE)
  /\ Render(storedValue, {}, activeView, selectedEventId)
  /\ UNCHANGED <<storage, storageMode, isStorageAvailable,
                 hasShownStorageWarning, alertCount, hookState, storedValue,
                 mountPos, reloads, lastSet, availableThroughout,
                 activeView, selectedEventId, transactionModalContext, pendingReads,
                 download, txCreated, eventsCreated, categoriesCreated>>

RECURSIVE MapEvent(_, _, _, _)
\* prev.map(e => e.id === id ? {...e, name, budget} : e)
MapEvent(list, id, name, budget) ==
  IF list = <<>> THEN <<>>
  ELSE <<IF Head(list).id = id
         THEN [Head(list) EXCEPT !.name = name, !.budget = budget]
         ELSE Head(list)>> \o MapEvent(Tail(list), id, name, budget)

\* App.saveEvent: the new event list.
SaveEvent(list, id, name, budget, freshId) ==
  IF id # 0 THEN MapEvent(list, id, name, budget)
  ELSE Append(list, [name |-> name, budget |-> budget, id |-> freshId])

\* AddEventModal.handleSubmit, then App.saveEvent and onClose.  name is the
\* trimmed text; budgetAmount 0 stands for NaN and non-positive budgets.
HandleEventSubmit(name, budgetAmount) ==
  /\ Mounted /\ eventModal.open
  /\ LET err == IF name = "" THEN "errorEventName"
                ELSE IF budgetAmount <= 0 THEN "errorEventBudget" ELSE ""
         id == eventModal.edit
     IN IF err # ""
        THEN /\ alerts' = {err}
             /\ lastOp' = Op("eventSubmit", err, 0, NoText, FALSE)
             /\ UNCHANGED <<storage, storageMode, isStorageAvailable,
                            hasShownStorageWarning, alertCount, hookState,
                            storedValue, mountPos, reloads, lastSet,
                            availableThroughout, renderVars,
                            activeView, selectedEventId,
                            eventModal, eventsCreated>>
        ELSE /\ id = 0 => eventsCreated < MaxEvents
             /\ Commit([storedValue EXCEPT !["events"] =
                          SaveEvent(@, id, name, budgetAmount,
                                    eventsCreated + 1)],
                       {"events"}, activeView, selectedEventId)
             /\ eventModal' = ClosedEventModal
             /\ eventsCreated' = IF id = 0 THEN eventsCreated + 1
                                 ELSE eventsCreated
             /\ lastOp' = Op("eventSubmit", "",
                             IF id = 0 THEN eventsCreated + 1 ELSE id,
                             NoText, TRUE)
  /\ UNCHANGED <<transactionModalContext, pendingReads, download, txCreated,
                 categoriesCreated>>

\* App.deleteEvent: the event list and the transaction list after it.
\* Variant: the filter is inverted.
DeleteEventFromMutant(list, eventId) ==
  SelectSeq(list, LAMBDA t: t.eventId = eventId)

\* The filter as the source has it.
DeleteEventFrom(list, eventId) ==
  SelectSeq(list, LAMBDA t: t.eventId # eventId)

\* App.deleteEvent, from the event list or the event detail.
DeleteEvent(eventId, confirm) ==
  /\ Mounted /\ NoModal
  /\ \/ selectedEventId = 0 /\ activeView = "events"
          /\ eventId \in Ids(events)
     \/ selectedEventId # 0 /\ eventId = selectedEventId
  /\ IF confirm
     THEN Commit([storedValue EXCEPT
                    !["events"] = SelectSeq(@, LAMBDA e: e.id # eventId),
                    !["transactions"] = DeleteEventFrom(@, eventId)],
                 {"events", "transactions"}, activeView,
                 IF selectedEventId = eventId THEN 0 ELSE selectedEventId)
     ELSE /\ alerts' = {}
          /\ UNCHANGED <<storage, storageMode, isStorageAvailable,
                         hasShownStorageWarning, alertCount, hookState,
                         storedValue, mountPos, reloads, lastSet,
                         availableThroughout,
                         activeView, selectedEventId, renderVars>>
  /\ lastOp' = Op("deleteEvent", "", eventId, NoText, confirm)
  /\ UNCHANGED <<transactionModalContext, eventModal, pendingReads, download,
                 txCreated, eventsCreated, categoriesCreated>>

\* ------------------------------------------------------------- categories
\* Settings.handleDeleteCategory: the transaction list and the category
\* list after a confirmed deletion.
\* Variant: only the transactions without an event are reassigned.
ReassignCategoryMutant(list, categoryId) ==
  MapCategory(SelectSeq(list, LAMBDA t: t.eventId = 0), categoryId, "other")
    \o SelectSeq(list, LAMBDA t: t.eventId # 0)

\* The map as the source has it.
ReassignCategory(list, categoryId) == MapCategory(list, categoryId, "other")

RemoveCategory(list, categoryId) ==
  SelectSeq(list, LAMBDA c: c.id # categoryId)

\* name.toLowerCase().replace(/\s+/g, '_') of the names typed in the model.
Slug(name) ==
  CASE name = "Other"   -> "other"
    [] name = "my pets" -> "my_pets"
    [] OTHER            -> name

\* Settings.handleSaveCategory: the id of a new category; now is Date.now().
NewCategoryId(name, now) == Slug(name) \o ToString(now)

RECURSIVE MapSaveCategory(_, _, _)
\* prev.map(c => c.id === category.id ? {...c, ...category} : c)
MapSaveCategory(list, id, name) ==
  IF list = <<>> THEN <<>>
  ELSE <<IF Head(list).id = id THEN [Head(list) EXCEPT !.name = name]
         ELSE Head(list)>> \o MapSaveCategory(Tail(list), id, name)

\* Settings.handleSaveCategory: the category list after it; id "" is the
\* undefined id of a new category.
SaveCategory(list, id, name, now) ==
  IF id # "" THEN MapSaveCategory(list, id, name)
  ELSE Append(list, [id |-> NewCategoryId(name, now), name |-> name])

\* CategoryModal.handleSubmit, then Settings.handleSaveCategory and onClose.
\* edit is the id of categoryToEdit ("" for a new category), name the
\* trimmed text.
HandleCategorySubmit(edit, name) ==
  /\ Mounted /\ NoModal
  /\ SettingsRendered(activeView, selectedEventId)
  /\ edit \in Ids(categories) \cup {""}
  /\ IF name = ""
     THEN /\ alerts' = {"errorCategoryName"}
          /\ lastOp' = Op("categorySubmit", edit, 0, NoText, FALSE)
          /\ UNCHANGED <<storage, storageMode, isStorageAvailable,
                         hasShownStorageWarning, alertCount, hookState,
                         storedValue, mountPos, reloads, lastSet,
                         availableThroughout, renderVars,
                         activeView, selectedEventId,
                         categoriesCreated>>
     ELSE /\ edit = "" => categoriesCreated < MaxCategories
          /\ Commit([storedValue EXCEPT !["categories"] =
                       SaveCategory(@, edit, name, categoriesCreated + 1)],
                    {"categories"}, activeView, selectedEventId)
          /\ categoriesCreated' = IF edit = "" THEN categoriesCreated + 1
                                  ELSE categoriesCreated
          /\ lastOp' = Op("categorySubmit", edit, 0, NoText, TRUE)
  /\ UNCHANGED <<transactionModalContext, eventModal, pendingReads, download,
                 txCreated, eventsCreated>>

\* Settings.handleDeleteCategory
HandleDeleteCategory(categoryId, confirm) ==
  /\ Mounted /\ NoModal
  /\ SettingsRendered(activeView, selectedEventId)
  /\ categoryId \in Ids(categories)
  /\ IF categoryId = "other"
     THEN /\ alerts' = {"errorDeleteOtherCategory"}
          /\ lastOp' = Op("deleteCategory", categoryId, 0, NoText, FALSE)
          /\ UNCHANGED <<storage, storageMode, isStorageAvailable,
                         hasShownStorageWarning, alertCount, hookState,
                         storedValue, mountPos, reloads, lastSet,
                         availableThroughout,
                         activeView, selectedEventId, renderVars>>
     ELSE IF confirm
     THEN /\ Commit([storedValue EXCEPT
                       !["transactions"] = ReassignCategory(@, categoryId),
                       !["categories"] = RemoveCategory(@, categoryId)],
                    {"transactions", "categories"}, activeView,
                    selectedEventId)
          /\ lastOp' = Op("deleteCategory", categoryId, 0, NoText, TRUE)
     ELSE /\ alerts' = {}
          /\ lastOp' = Op("deleteCategory", categoryId, 0, NoText, FALSE)
          /\ UNCHANGED <<storage, storageMode, isStorageAvailable,
                         hasShownStorageWarning, alertCount, hookState,
                         storedValue, mountPos, reloads, lastSet,
                         availableThroughout,
                         activeView, selectedEventId, renderVars>>
  /\ UNCHANGED <<transactionModalContext, eventModal, pendingReads, download,
                 txCreated, eventsCreated, categoriesCreated>>

\* Settings.handleBudgetChange: newAmount is parseFloat(amount) || 0, so 0
\* stands for a blank field and for every text that is not a number.  Only
\* Settings renders again.
HandleBudgetChange(categoryId, newAmount) ==
  /\ Mounted /\ NoModal
  /\ SettingsRendered(activeView, selectedEventId)
  /\ categoryId \in Ids(categories) \ {"other"}
  /\ localBudgets' = SetField(localBudgets, categoryId, newAmount)
  /\ alerts' = {}
  /\ lastOp' = Op("budgetChange", categoryId, newAmount, NoText, TRUE)
  /\ UNCHANGED <<storage, storageMode, isStorageAvailable,
                 hasShownStorageWarning, alertCount, hookState, storedValue,
                 mountPos, reloads, lastSet, availableThroughout,
                 activeView, selectedEventId, transactionModalContext,
                 eventModal, pendingReads, download, txCreated, eventsCreated,
                 categoriesCreated, currentMonthKey, historyMonthKey,
                 clockMonth>>

\* Settings.handleSaveBudgets:
\* Object.entries(localBudgets).map(...).filter(b => b.amount > 0)
\* Variant: the fields of categories that are gone are left out.
NewBudgetsLiveOnly(fields) ==
  SelectSeq(fields,
            LAMBDA b: b.amount > 0 /\ b.categoryId \in Ids(categories))

\* The filter as the source has it.
NewBudgets(fields) == SelectSeq(fields, LAMBDA b: b.amount > 0)

\* App.setMonthBudget: {...prev, [currentMonthKey]: newBudgets}
SetMonthBudget(buds, key, newBudgets) ==
  [m \in DOMAIN buds \cup {key} |-> IF m = key THEN newBudgets ELSE buds[m]]

\* Settings.handleSaveBudgets, then App.setMonthBudget (the message that
\* follows is the ok of the descriptor, which also holds the number of
\* fields at the time of the save).
HandleSaveBudgets ==
  /\ Mounted /\ NoModal
  /\ SettingsRendered(activeView, selectedEventId)
  /\ Commit([storedValue EXCEPT !["budgets"] =
               SetMonthBudget(@, currentMonthKey, NewBudgets(localBudgets))],
            {"budgets"}, activeView, selectedEventId)
  /\ lastOp' = Op("saveBudgets", "", Len(localBudgets), NoText, TRUE)
  /\ UNCHANGED <<transactionModalContext, eventModal, pendingReads, download,
                 txCreated, eventsCreated, categoriesCreated>>

\* ------------------------------------------------------ backup and restore
BackupFields == {"transactions", "categories", "budgets", "events"}

\* A JSON document with (some of) the four backup fields; a field that is
\* not in `present` is missing from the document and reads as undefined.
Doc(present, txs, cats, buds, evs) ==
  [present |-> present, transactions |-> txs, categories |-> cats,
   budgets |-> buds, events |-> evs]

NoDownload == <<"null">>

\* Settings.handleExportData: the text of the downloaded file.  Settings
\* receives App's mainTransactions as its `transactions` prop.
BackupData ==
  Doc(BackupFields, mainTransactions, categories, budgets, events)

\* Settings.handleExportData
HandleExportData ==
  /\ Mounted /\ NoModal
  /\ SettingsRendered(activeView, selectedEventId)
  /\ download' = JSON_stringify(BackupData)
  /\ alerts' = {}
  /\ lastOp' = Op("export", "", 0, JSON_stringify(BackupData), TRUE)
  /\ UNCHANGED <<storage, storageMode, isStorageAvailable,
                 hasShownStorageWarning, alertCount, hookState, storedValue,
                 mountPos, reloads, lastSet, availableThroughout, renderVars,
                 activeView, selectedEventId, transactionModalContext, eventModal,
                 pendingReads, txCreated, eventsCreated, categoriesCreated>>

\* The downloaded file is deleted without being imported.
DiscardDownload ==
  /\ download # NoDownload /\ download \notin pendingReads
  /\ download' = NoDownload
  /\ alerts' = {}
  /\ lastOp' = Op("discard", "", 0, NoText, TRUE)
  /\ UNCHANGED <<storage, storageMode, isStorageAvailable,
                 hasShownStorageWarning, alertCount, hookState, storedValue,
                 mountPos, reloads, lastSet, availableThroughout, renderVars,
                 activeView, selectedEventId, transactionModalContext, eventModal,
                 pendingReads, txCreated, eventsCreated, categoriesCreated>>

\* Settings.handleFileChange: reader.readAsText(file) starts.
HandleFileChange(text) ==
  /\ Mounted /\ NoModal
  /\ SettingsRendered(activeView, selectedEventId)
  /\ text \notin pendingReads
  /\ Cardinality(pendingReads) < MaxPendingReads
  /\ pendingReads' = pendingReads \cup {text}
  /\ alerts' = {}
  /\ lastOp' = Op("fileChange", "", 0, text, TRUE)
  /\ UNCHANGED <<storage, storageMode, isStorageAvailable,
                 hasShownStorageWarning, alertCount, hookState, storedValue,
                 mountPos, reloads, lastSet, availableThroughout, renderVars,
                 activeView, selectedEventId, transactionModalContext, eventModal,
                 download, txCreated, eventsCreated, categoriesCreated>>

\* reader.onload, line 323: the "basic validation" of the parsed data.
\* Variant: only the transactions field is required.
InvalidStructureMutant(data) == "transactions" \notin data.present

\* The validation as the source has it.
InvalidStructure(data) ==
  \/ "transactions" \notin data.present
  \/ "categories" \notin data.present
  \/ "budgets" \notin data.present
  \/ "events" \notin data.present

\* reader.onload: does the try block throw (JSON.parse or the validation)?
ImportThrows(text) ==
  IF ParseThrows(text) THEN TRUE ELSE InvalidStructure(JSON_parse(text))

\* reader.onload, lines 328-331: the state after the four direct sets.
\* Variant: the events are not replaced.
ImportedMutant(vals, data) ==
  [vals EXCEPT !["transactions"] = data.transactions,
               !["categories"] = data.categories,
               !["budgets"] = data.budgets]

\* The four sets as the source has them.
Imported(vals, data) ==
  [vals EXCEPT !["transactions"] = data.transactions,
               !["categories"] = data.categories,
               !["budgets"] = data.budgets,
               !["events"] = data.events]

\* reader.onload of Settings.handleFileChange: the read of text completes.
ReaderOnload(text, confirm) ==
  /\ Mounted
  /\ text \in pendingReads
  /\ pendingReads' = pendingReads \ {text}
  /\ download' = IF text = download THEN NoDownload ELSE download
  /\ IF ImportThrows(text)
     THEN /\ alerts' = {"importErrorInvalidFile"}
          /\ lastOp' = Op("onload", "", 0, text, FALSE)
          /\ UNCHANGED <<storage, storageMode, isStorageAvailable,
                         hasShownStorageWarning, alertCount, hookState,
                         storedValue, mountPos, reloads, lastSet,
                         availableThroughout,
                         activeView, selectedEventId, renderVars>>
     ELSE IF confirm
     THEN /\ Commit(Imported(storedValue, JSON_parse(text)), BackupFields,
                    activeView, selectedEventId)
          /\ lastOp' = Op("onload", "", 0, text, TRUE)
     ELSE /\ alerts' = {}
          /\ lastOp' = Op("onload", "", 0, text, FALSE)
          /\ UNCHANGED <<storage, storageMode, isStorageAvailable,
                         hasShownStorageWarning, alertCount, hookState,
                         storedValue, mountPos, reloads, lastSet,
                         availableThroughout,
                         activeView, selectedEventId, renderVars>>
  /\ UNCHANGED <<transactionModalContext, eventModal, txCreated,
                 eventsCreated, categoriesCreated>>

\* ------------------------------------------------------------ environment
\* The quota of the store is reached: setItem throws from now on.
StorageFills ==
  /\ storageMode = "ok"
  /\ storageMode' = "full"
  /\ alerts' = {}
  /\ lastOp' = Op("storageFills", "", 0, NoText, TRUE)
  /\ UNCHANGED <<storage, isStorageAvailable, hasShownStorageWarning,
                 alertCount, hookState, storedValue, mountPos, reloads, lastSet,
                 availableThroughout, uiVars>>

\* The store works again (the user cleared some space, or allowed storage).
StorageFrees ==
  /\ storageMode # "ok"
  /\ storageMode' = "ok"
  /\ alerts' = {}
  /\ lastOp' = Op("storageFrees", "", 0, NoText, TRUE)
  /\ UNCHANGED <<storage, isStorageAvailable, hasShownStorageWarning,
                 alertCount, hookState, storedValue, mountPos, reloads, lastSet,
                 availableThroughout, uiVars>>

\* The month ends while the application is open: nothing renders.
MonthChanges ==
  /\ MonthIndex(clockMonth) < Len(MonthKeys)
  /\ clockMonth' = MonthKeys[MonthIndex(clockMonth) + 1]
  /\ alerts' = {}
  /\ lastOp' = Op("monthChanges", "", 0, NoText, TRUE)
  /\ UNCHANGED <<storage, storageMode, isStorageAvailable,
                 hasShownStorageWarning, alertCount, hookState, storedValue,
                 mountPos, reloads, lastSet, availableThroughout,
                 activeView, selectedEventId, transactionModalContext,
                 eventModal, pendingReads, download, txCreated, eventsCreated,
                 categoriesCreated, localBudgets, currentMonthKey,
                 historyMonthKey>>

\* The state of a process that has not rendered yet: the module flags of
\* useLocalStorage.ts and the useState defaults of App.
Fresh ==
  /\ isStorageAvailable = "null"
  /\ hasShownStorageWarning = FALSE
  /\ alertCount = NoAlerts
  /\ alerts = {}
  /\ hookState = [k \in Keys |-> "unmounted"]
  /\ storedValue = [k \in Keys |-> Unset(k)]
  /\ mountPos = 0
  /\ activeView = "dashboard"
  /\ selectedEventId = 0
  /\ localBudgets = <<>>
  /\ currentMonthKey = CurrentMonthKey
  /\ historyMonthKey = "none"
  /\ clockMonth = CurrentMonthKey
  /\ transactionModalContext = ClosedContext
  /\ eventModal = ClosedEventModal
  /\ pendingReads = {}
  /\ download = NoDownload

\* The page is reloaded: a new process starts on the same store.
Reload ==
  /\ Mounted
  /\ reloads < MaxReloads
  /\ reloads' = reloads + 1
  /\ isStorageAvailable' = "null"
  /\ hasShownStorageWarning' = FALSE
  /\ alertCount' = NoAlerts
  /\ alerts' = {}
  /\ hookState' = [k \in Keys |-> "unmounted"]
  /\ storedValue' = [k \in Keys |-> Unset(k)]
  /\ mountPos' = 0
  /\ activeView' = "dashboard"
  /\ selectedEventId' = 0
  /\ localBudgets' = <<>>
  /\ currentMonthKey' = clockMonth
  /\ historyMonthKey' = "none"
  /\ transactionModalContext' = ClosedContext
  /\ eventModal' = ClosedEventModal
  /\ pendingReads' = {}
  /\ download' = NoDownload
  /\ storageMode' \in StorageModes
  /\ lastOp' = Op("reload", "", 0, NoText, TRUE)
  /\ UNCHANGED <<storage, lastSet, availableThroughout, clockMonth, txCreated,
                 eventsCreated, categoriesCreated>>

\* ----------------------------------------------------------------- inputs
\* What the user types and picks, and the files offered to the import.
FormTypes == {"income", "expense"}
FormAmounts == {1}
FormDates == {Today}
FormCategories == {"groceries"}
EventNames == {"trip"}
DeletableCategories == {"groceries", "other"}
TxIds == 1..MaxTx \cup {101, 102}
EventIds == 1..MaxEvents \cup {101}

FileTransactions ==
  << [id |-> 101, type |-> "expense", amount |-> 1, description |-> "x",
      date |-> <<PrevMonthKey, 15>>, categoryId |-> "groceries",
      eventId |-> 0],
     [id |-> 102, type |-> "expense", amount |-> 1, description |-> "x",
      date |-> Today, categoryId |-> "groceries", eventId |-> 101] >>
FileCategories ==
  << [id |-> "groceries", name |-> "category_groceries"],
     [id |-> "other", name |-> "category_other"] >>
FileBudgets ==
  [m \in {CurrentMonthKey} |-> <<[categoryId |-> "groceries", amount |-> 1]>>]
FileEvents == << [id |-> 101, name |-> "trip", budget |-> 1] >>

\* A backup made elsewhere, and the same document with one field missing.
FileWith(present) ==
  JSON_stringify(
    Doc(present,
        IF "transactions" \in present THEN FileTransactions ELSE <<>>,
        IF "categories" \in present THEN FileCategories ELSE <<>>,
        IF "budgets" \in present THEN FileBudgets ELSE EmptyBudgets,
        IF "events" \in present THEN FileEvents ELSE <<>>))
ValidFile == FileWith(BackupFields)
InvalidFiles ==
  {Garbage} \cup {FileWith(BackupFields \ {f}) : f \in BackupFields}
Files == {ValidFile} \cup InvalidFiles

\* ------------------------------------------------------- specifications
\* The state the first mount reaches on an empty, working store.
Init ==
  /\ storage = [k \in Keys |->
                  IF k = "notificationFrequency" THEN NoItem
                  ELSE JSON_stringify(InitialValue(k))]
  /\ storageMode = "ok"
  /\ isStorageAvailable = "true"
  /\ hasShownStorageWarning = FALSE
  /\ alertCount = NoAlerts
  /\ alerts = {}
  /\ hookState = [k \in Keys |->
                    IF k = "notificationFrequency" THEN "unmounted"
                    ELSE "mounted"]
  /\ storedValue = [k \in Keys |->
                      IF k = "notificationFrequency" THEN Unset(k)
                      ELSE InitialValue(k)]
  /\ mountPos = MountSteps
  /\ reloads = 0
  /\ lastSet = [k \in Keys |->
                  IF k = "notificationFrequency" THEN <<>>
                  ELSE <<InitialValue(k)>>]
  /\ availableThroughout = TRUE
  /\ activeView = "dashboard"
  /\ selectedEventId = 0
  /\ localBudgets = <<>>
  /\ currentMonthKey = CurrentMonthKey
  /\ historyMonthKey = "none"
  /\ clockMonth = CurrentMonthKey
  /\ transactionModalContext = ClosedContext
  /\ eventModal = ClosedEventModal
  /\ pendingReads = {}
  /\ download = NoDownload
  /\ txCreated = 0
  /\ eventsCreated = 0
  /\ categoriesCreated = 0
  /\ lastOp = Op("effect", "language", 0, NoText, TRUE)

\* The form and list handlers of the running application.
Editing ==
  \/ \E view \in Views : HandleSetView(view)
  \/ \E e \in EventIds : OnSelectEvent(e)
  \/ OnBack
  \/ \E e \in EventIds \cup {0} : OpenTransactionModal(e)
  \/ CloseTransactionModal
  \/ \E type \in FormTypes, a \in FormAmounts, date \in FormDates,
        c \in FormCategories : HandleSubmit(type, a, "x", date, c)
  \/ \E t \in TxIds : DeleteTransaction(t)
  \/ \E e \in EventIds \cup {0} : HandleOpenEventModal(e)
  \/ CloseEventModal
  \/ \E n \in EventNames, b \in FormAmounts : HandleEventSubmit(n, b)
  \/ \E e \in EventIds, confirm \in BOOLEAN : DeleteEvent(e, confirm)
  \/ \E c \in DeletableCategories, confirm \in BOOLEAN :
       HandleDeleteCategory(c, confirm)

\* Spec: the running application with its backup: it starts after the first
\* mount, and the store keeps working.  The one file ever imported is the
\* backup just downloaded, and it is imported or discarded before anything
\* else is done.
Next ==
  \/ download = NoDownload /\ Editing
  \/ download = NoDownload /\ HandleExportData
  \/ download # NoDownload /\ HandleFileChange(download)
  \/ download # NoDownload /\ \E confirm \in BOOLEAN :
                                 ReaderOnload(download, confirm)
  \/ download # NoDownload /\ DiscardDownload

Spec == Init /\ [][Next]_vars

\* SpecImport: the import of files of every kind, whose reads complete at any
\* later time, between the other things the user does.
NextImport ==
  \/ \E view \in Views : HandleSetView(view)
  \/ OpenTransactionModal(0)
  \/ CloseTransactionModal
  \/ \E type \in FormTypes, a \in FormAmounts, date \in FormDates,
        c \in FormCategories : HandleSubmit(type, a, "x", date, c)
  \/ \E text \in Files : HandleFileChange(text)
  \/ \E text \in Files, confirm \in BOOLEAN : ReaderOnload(text, confirm)

SpecImport == Init /\ [][NextImport]_vars

\* A value of each key that an earlier session saved.
SavedValue(k) ==
  CASE k = "language"              -> "es"
    [] k = "categories"            -> FileCategories
    [] k = "transactions"          -> FileTransactions
    [] k = "budgets"               -> FileBudgets
    [] k = "events"                -> FileEvents
    [] k = "theme"                 -> "rose"
    [] k = "notificationFrequency" -> "weekly"

\* What the store may hold for a key when the process starts.
StoredText(k, kind) ==
  CASE kind = "null"    -> NoItem
    [] kind = "empty"   -> EmptyText
    [] kind = "garbage" -> Garbage
    [] kind = "saved"   -> JSON_stringify(SavedValue(k))

\* A process that has not rendered yet, on a store with any mix of missing,
\* undecodable and saved values.
InitLoad ==
  /\ Fresh
  /\ \E kinds \in [Keys -> {"null", "empty", "garbage", "saved"}] :
       /\ \A k \in Keys : kinds[k] = "empty" => k = "theme"
       /\ storage = [k \in Keys |-> StoredText(k, kinds[k])]
  /\ storageMode \in StorageModes
  /\ lastSet = [k \in Keys |-> <<>>]
  /\ reloads = 0
  /\ availableThroughout = TRUE
  /\ txCreated = 0
  /\ eventsCreated = 0
  /\ categoriesCreated = 0
  /\ lastOp = Op("start", "", 0, NoText, TRUE)

\* SpecLoad: the first mount, and the mount of Settings.
NextLoad ==
  \/ HookInit
  \/ HookEffect
  \/ \E view \in {"settings", "history"} : HandleSetView(view)

SpecLoad == InitLoad /\ [][NextLoad]_vars

\* A process that has not rendered yet, on an empty store.
InitStore ==
  /\ Fresh
  /\ storage = [k \in Keys |-> NoItem]
  /\ storageMode \in StorageModes
  /\ lastSet = [k \in Keys |-> <<>>]
  /\ reloads = 0
  /\ availableThroughout = TRUE
  /\ txCreated = 0
  /\ eventsCreated = 0
  /\ categoriesCreated = 0
  /\ lastOp = Op("start", "", 0, NoText, TRUE)

\* SpecStore: sessions of state changes on a store that may fill up, and
\* that may be found working, full or disabled when the page is reloaded.
NextStore ==
  \/ HookInit
  \/ HookEffect
  \/ StorageFills
  \/ Reload
  \/ \E view \in {"settings", "dashboard"} : HandleSetView(view)
  \/ ToggleTheme
  \/ \E f \in {"monthly", "weekly"} : SetNotificationFrequency(f)
  \/ OpenTransactionModal(0)
  \/ HandleSubmit("income", 1, "x", Today, "")

SpecStore == InitStore /\ [][NextStore]_vars

\* What the user types into the category form, and the categories whose
\* edit and delete buttons are pressed.
CategoryNames == {"", "Other", "my pets"}
CategoryTargets ==
  {"groceries", "other"} \cup
  {NewCategoryId(n, k) : n \in CategoryNames \ {""}, k \in 1..MaxCategories}

\* A backup whose category list has no 'other' entry.
NoFallbackFile ==
  JSON_stringify(
    Doc(BackupFields, <<>>,
        << [id |-> "groceries", name |-> "category_groceries"] >>,
        EmptyBudgets, <<>>))

\* SpecCategories: the category list under add, edit, delete and import.
NextCategories ==
  \/ \E view \in {"settings", "dashboard"} : HandleSetView(view)
  \/ \E edit \in CategoryTargets \cup {""}, n \in CategoryNames :
       HandleCategorySubmit(edit, n)
  \/ \E c \in CategoryTargets, confirm \in BOOLEAN :
       HandleDeleteCategory(c, confirm)
  \/ \E text \in {ValidFile, NoFallbackFile} : HandleFileChange(text)
  \/ \E text \in {ValidFile, NoFallbackFile}, confirm \in BOOLEAN :
       ReaderOnload(text, confirm)

SpecCategories == Init /\ [][NextCategories]_vars

\* What may be typed into the two forms, valid or not: amounts (0 stands for
\* every text parseFloat gives NaN for), trimmed descriptions and names, and
\* the category picked ("" for none).
AnyAmounts == {-1, 0, 1}
AnyTexts == {"", "x"}
AnyCategories == {"", "groceries"}

\* SpecForms: the two forms under every input.
NextForms ==
  \/ \E view \in {"dashboard", "events"} : HandleSetView(view)
  \/ \E e \in EventIds : OnSelectEvent(e)
  \/ \E e \in EventIds \cup {0} : OpenTransactionModal(e)
  \/ CloseTransactionModal
  \/ \E type \in FormTypes, a \in AnyAmounts, d \in AnyTexts,
        c \in AnyCategories : HandleSubmit(type, a, d, Today, c)
  \/ HandleOpenEventModal(0)
  \/ CloseEventModal
  \/ \E n \in AnyTexts, b \in AnyAmounts : HandleEventSubmit(n, b)

SpecForms == Init /\ [][NextForms]_vars

\* SpecProbe: sessions in which the store fails and recovers while the
\* process runs.
NextProbe ==
  \/ HookInit
  \/ HookEffect
  \/ StorageFills
  \/ StorageFrees
  \/ Reload
  \/ ToggleTheme

SpecProbe == InitStore /\ [][NextProbe]_vars

\* The collections the views are given: what a backup import or an earlier
\* session may have left.  Amounts and budgets are not negative; an event
\* may have budget 0 and an income may carry an event id (the import checks
\* neither).
ViewItems ==
  {[type |-> "income", amount |-> k[1], description |-> "x", date |-> k[3],
    categoryId |-> Undefined, eventId |-> k[2]] :
     k \in {<<1, 0, Today>>, <<1, 0, LastMonth>>, <<1, 101, Today>>}}
  \cup
  {[type |-> "expense", amount |-> k[1], description |-> "x", date |-> k[4],
    categoryId |-> k[2], eventId |-> k[3]] :
     k \in {<<1, "groceries", 0, Today>>, <<2, "groceries", 0, Today>>,
            <<1, "other", 0, Today>>, <<1, "groceries", 0, LastMonth>>,
            <<1, "groceries", 101, Today>>,
            <<1, "groceries", 101, LastMonth>>,
            <<1, "groceries", 102, Today>>,
            <<1, "groceries", 0, NextMonth>>}}

WithId(item, id) ==
  [id |-> id, type |-> item.type, amount |-> item.amount,
   description |-> item.description, date |-> item.date,
   categoryId |-> item.categoryId, eventId |-> item.eventId]

ViewTransactions ==
  UNION {{[i \in 1..n |-> WithId(items[i], 200 + i)] :
            items \in [1..n -> ViewItems]} : n \in 0..MaxListed}

ViewBudgets ==
  {EmptyBudgets} \cup
  {[m \in {CurrentMonthKey} |-> <<[categoryId |-> "groceries", amount |-> 1]>>]}

ViewEvents ==
  {<<[id |-> 101, name |-> "trip", budget |-> b],
     [id |-> 102, name |-> "party", budget |-> 1]>> : b \in {0, 2}}

\* The running application on such collections.
InitViews ==
  /\ \E txs \in ViewTransactions, buds \in ViewBudgets, evs \in ViewEvents :
       /\ storedValue =
            [k \in Keys |->
               CASE k = "transactions" -> txs
                 [] k = "budgets" -> buds
                 [] k = "events" -> evs
                 [] k = "notificationFrequency" -> Unset(k)
                 [] OTHER -> InitialValue(k)]
       /\ storage = [k \in Keys |->
                       IF k = "notificationFrequency" THEN NoItem
                       ELSE JSON_stringify(storedValue[k])]
       /\ lastSet = [k \in Keys |->
                       IF k = "notificationFrequency" THEN <<>>
                       ELSE <<storedValue[k]>>]
  /\ storageMode = "ok"
  /\ isStorageAvailable = "true"
  /\ hasShownStorageWarning = FALSE
  /\ alertCount = NoAlerts
  /\ alerts = {}
  /\ hookState = [k \in Keys |->
                    IF k = "notificationFrequency" THEN "unmounted"
                    ELSE "mounted"]
  /\ mountPos = MountSteps
  /\ reloads = 0
  /\ availableThroughout = TRUE
  /\ activeView = "dashboard"
  /\ selectedEventId = 0
  /\ localBudgets = <<>>
  /\ currentMonthKey = CurrentMonthKey
  /\ historyMonthKey = "none"
  /\ clockMonth = CurrentMonthKey
  /\ transactionModalContext = ClosedContext
  /\ eventModal = ClosedEventModal
  /\ pendingReads = {}
  /\ download = NoDownload
  /\ txCreated = 0
  /\ eventsCreated = 0
  /\ categoriesCreated = 0
  /\ lastOp = Op("effect", "language", 0, NoText, TRUE)

\* SpecViews: the views rendered over every such collection.
NextViews ==
  \/ \E view \in Views : HandleSetView(view)
  \/ \E e \in {101, 102} : OnSelectEvent(e)
  \/ OnBack

SpecViews == InitViews /\ [][NextViews]_vars

\* The dates picked in the date field of the transaction form, which has
\* neither a minimum nor a maximum.
AnyDates == {Today, LastMonth, NextMonth}

\* SpecDates: transactions added with any date, and the views of the months.
NextDates ==
  \/ \E view \in {"dashboard", "history"} : HandleSetView(view)
  \/ OpenTransactionModal(0)
  \/ CloseTransactionModal
  \/ \E type \in FormTypes, date \in AnyDates :
       HandleSubmit(type, 1, "x", date, "groceries")

SpecDates == Init /\ [][NextDates]_vars

\* SpecBudgets: the budget fields of Settings edited and saved, and
\* categories deleted meanwhile.
BudgetedCategories == {"groceries", "transport"}
NextBudgets ==
  \/ \E view \in {"settings", "dashboard"} : HandleSetView(view)
  \/ \E c \in BudgetedCategories, a \in AnyAmounts : HandleBudgetChange(c, a)
  \/ HandleSaveBudgets
  \/ \E confirm \in BOOLEAN : HandleDeleteCategory("groceries", confirm)

SpecBudgets == Init /\ [][NextBudgets]_vars

\* SpecRace: events and their expenses are created and deleted while the
\* read of a backup file, whose transactions refer to its own event only,
\* completes at any moment.
NextRace ==
  \/ \E view \in {"settings", "events"} : HandleSetView(view)
  \/ \E e \in EventIds : OnSelectEvent(e)
  \/ OnBack
  \/ \E e \in EventIds : OpenTransactionModal(e)
  \/ CloseTransactionModal
  \/ HandleSubmit("expense", 1, "x", Today, "groceries")
  \/ HandleOpenEventModal(0)
  \/ HandleEventSubmit("trip", 1)
  \/ \E e \in EventIds : DeleteEvent(e, TRUE)
  \/ HandleFileChange(ValidFile)
  \/ \E confirm \in BOOLEAN : ReaderOnload(ValidFile, confirm)

SpecRace == Init /\ [][NextRace]_vars

\* SpecClock: transactions are added and the views of the months are
\* looked at while the calendar month may change.
NextClock ==
  \/ \E view \in {"dashboard", "history"} : HandleSetView(view)
  \/ OpenTransactionModal(0)
  \/ CloseTransactionModal
  \/ \E date \in AnyDates : HandleSubmit("expense", 1, "x", date, "groceries")
  \/ ToggleTheme
  \/ MonthChanges

SpecClock == Init /\ [][NextClock]_vars

\* ----------------------------------------------------------------- claims
\* The hook of key k ran its initializer in this step.
Initialises(k) == hookState[k] = "unmounted" /\ hookState'[k] # "unmounted"

\* C1: while the store is available and no write has failed, the string
\* stored under every key whose change has been processed is the
\* serialization of the key's current in-memory value.
C1_StoreMirrorsState ==
  (isStorageAvailable = "true" /\ alertCount["writeFailed"] = 0) =>
    \A k \in Keys :
      hookState[k] = "mounted" => storage[k] = JSON_stringify(storedValue[k])

\* The form added a transaction (a functional update) after the theme was
\* set (a direct set), and the store holds both.
C1_Witness ==
  /\ isStorageAvailable = "true" /\ alertCount["writeFailed"] = 0
  /\ lastOp.op = "submit" /\ lastOp.ok
  /\ appTheme = "rose"
  /\ Len(transactions) = 2
  /\ storage["transactions"] = JSON_stringify(transactions)
  /\ storage["theme"] = JSON_stringify("rose")

\* C2: when the store has been available throughout, the read-on-init of a
\* key after a reload (or a remount) returns the value most recently set for
\* that key.
C2_ReloadReadsLastWrite ==
  [][\A k \in Keys :
       (Initialises(k) /\ availableThroughout' /\ lastSet[k] # <<>>)
         => storedValue'[k] = lastSet[k][1]]_vars

\* After a reload the initializer has read back the two transactions of the
\* session before.
C2_Witness ==
  /\ reloads = 1 /\ availableThroughout
  /\ hookState["transactions"] = "initialised"
  /\ Len(transactions) = 2
  /\ lastSet["transactions"] = <<transactions>>

\* C3: the initial load of a key yields the caller's default when the store
\* is unavailable, the key is absent or the stored string does not decode,
\* and the decoded stored value otherwise.
C3_InitialLoad ==
  [][\A k \in Keys :
       Initialises(k) =>
         storedValue'[k] =
           IF \/ storageMode # "ok"
              \/ storage[k][1] = "null"
              \/ ParseThrows(storage[k])
           THEN InitialValue(k)
           ELSE JSON_parse(storage[k])]_vars

\* One mount in which a key was absent, one did not decode and one decoded.
C3_Witness ==
  /\ mountPos = Len(RenderOrder) /\ storageMode = "ok"
  /\ storage["events"] = NoItem /\ events = <<>>
  /\ storage["categories"] = Garbage /\ categories = DEFAULT_CATEGORIES
  /\ storage["transactions"] = JSON_stringify(FileTransactions)
  /\ transactions = FileTransactions

\* C4: on a working store every key loads on its own: its stored value when
\* that is valid JSON and its own default otherwise, whatever the other keys
\* hold, and its load leaves the other keys' values and strings alone.
C4_KeysLoadIndependently ==
  [][\A k \in Keys :
       (Initialises(k) /\ storageMode = "ok") =>
         /\ storedValue'[k] = IF storage[k][1] = "json"
                              THEN JSON_parse(storage[k])
                              ELSE InitialValue(k)
         /\ \A j \in Keys \ {k} :
               storedValue'[j] = storedValue[j] /\ storage'[j] = storage[j]]_vars

\* Settings has mounted after a first mount in which invalid and valid
\* strings alternated over the seven keys.
C4_Witness ==
  /\ storageMode = "ok" /\ hookState["notificationFrequency"] = "mounted"
  /\ locale = "es" /\ categories = DEFAULT_CATEGORIES
  /\ transactions = FileTransactions /\ budgets = EmptyBudgets
  /\ events = FileEvents /\ appTheme = "dark"
  /\ notificationFrequency = "weekly"
  /\ alertCount["corrupted"] = MaxAlerts

\* C5: after a confirmed deletion of a category other than the fallback, the
\* category is gone, every transaction that referenced it (event-linked or
\* not) has categoryId "other", and no transaction references it.
C5_DeleteCategoryReassigns ==
  [][(lastOp'.op = "deleteCategory" /\ lastOp'.ok) =>
       LET c == lastOp'.str
       IN /\ c # "other"
          /\ c \notin Ids(categories')
          /\ Len(transactions') = Len(transactions)
          /\ \A i \in 1..Len(transactions) :
               /\ transactions[i].categoryId = c
                    => transactions'[i].categoryId = "other"
               /\ transactions'[i].categoryId # c]_vars

\* "groceries" was deleted while a main and an event-linked expense used it.
C5_Witness ==
  /\ lastOp.op = "deleteCategory" /\ lastOp.ok /\ lastOp.str = "groceries"
  /\ "groceries" \notin Ids(categories)
  /\ \E i, j \in 1..Len(transactions) :
       /\ transactions[i].eventId = 0 /\ transactions[i].categoryId = "other"
       /\ transactions[j].eventId # 0 /\ transactions[j].categoryId = "other"

\* C6: after a confirmed deletion of an event, the event is gone, every
\* transaction with its eventId is removed, and the other transactions
\* survive unchanged and in their order.
C6_DeleteEventCascades ==
  [][(lastOp'.op = "deleteEvent" /\ lastOp'.ok) =>
       LET e == lastOp'.id
       IN /\ e \notin Ids(events')
          /\ \A i \in 1..Len(transactions') : transactions'[i].eventId # e
          /\ transactions' = SelectSeq(transactions, LAMBDA t: t.eventId # e)]_vars

\* Event 1 was deleted with its expense; event 2 and its expense survive.
C6_Witness ==
  /\ lastOp.op = "deleteEvent" /\ lastOp.ok /\ lastOp.id = 1
  /\ txCreated = 2 /\ Len(transactions) = 1
  /\ transactions[1].eventId = 2
  /\ Ids(events) = {2}

\* The four collections are what they were before the step.
CollectionsUnchanged == \A f \in BackupFields : storedValue'[f] = storedValue[f]

\* The file does not parse, or lacks one of the four fields.
Unacceptable(text) ==
  IF ParseThrows(text) THEN TRUE ELSE JSON_parse(text).present # BackupFields

\* C7: importing a file that is not JSON, or that lacks one of the four
\* fields, leaves the four collections unchanged and shows an error.
C7_InvalidImportRejected ==
  [][(lastOp'.op = "onload" /\ Unacceptable(lastOp'.text)) =>
       /\ CollectionsUnchanged
       /\ "importErrorInvalidFile" \in alerts']_vars

\* A file without the events field was rejected after the user had added a
\* transaction: the transaction is still the only one.
C7_Witness ==
  /\ lastOp.op = "onload" /\ lastOp.text = FileWith(BackupFields \ {"events"})
  /\ "importErrorInvalidFile" \in alerts
  /\ Len(transactions) = 1 /\ transactions[1].id = 1
  /\ categories = DEFAULT_CATEGORIES

\* C8: once the completion callback of an import has run, either all four
\* collections equal the four fields of its file or the import changed none
\* of them, whatever happened between the choice of the file and the
\* callback.
C8_ImportAllOrNothing ==
  [][lastOp'.op = "onload" =>
       \/ /\ ~ParseThrows(lastOp'.text)
          /\ \A f \in BackupFields :
               storedValue'[f] = JSON_parse(lastOp'.text)[f]
       \/ CollectionsUnchanged]_vars

\* The valid file was imported while a second read was still in flight and
\* after the user had added a transaction in between.
C8_Witness ==
  /\ lastOp.op = "onload" /\ lastOp.ok /\ lastOp.text = ValidFile
  /\ pendingReads # {}
  /\ txCreated > 0
  /\ transactions = FileTransactions /\ categories = FileCategories
  /\ budgets = FileBudgets /\ events = FileEvents

\* C9: the exported document has the four fields, each equal to the
\* collection App holds, event-linked transactions included.
C9_ExportHoldsAllCollections ==
  download # NoDownload =>
    JSON_parse(download) =
      Doc(BackupFields, transactions, categories, budgets, events)

\* C10: exporting and at once importing the exported document, confirming
\* the prompt, leaves the four collections as they were before the export.
C10_RoundTrip ==
  [][(lastOp'.op = "onload" /\ lastOp'.ok /\ lastOp'.text = download)
       => CollectionsUnchanged]_vars

\* The number of categories of a list that carry the fallback id.
Fallbacks(list) == Cardinality({i \in 1..Len(list) : list[i].id = "other"})

\* C11: after every category add, edit, delete and every import exactly one
\* category has the id 'other', and a delete request for 'other' leaves the
\* category list unchanged.
C11_OneFallback ==
  [][/\ Fallbacks(categories') = 1
     /\ (lastOp'.op = "deleteCategory" /\ lastOp'.str = "other")
          => categories' = categories]_vars

\* The messages the transaction form rejects a submission with.
SubmitErrors == {"errorAmount", "errorDescription", "errorCategory"}

C13_ProbeOnceThenMemoryOnly ==
  [][lastOp'.op # "reload" =>
       /\ isStorageAvailable # "null"
            => isStorageAvailable' = isStorageAvailable
       /\ isStorageAvailable' = "false"
            => storage' = storage /\ "writeFailed" \notin alerts'
       /\ lastOp'.op = "setTheme" => appTheme' = NextTheme(appTheme)]_vars

\* The store was found unavailable, works again, and a theme change stayed
\* in memory: nothing was written.
C13_Witness ==
  /\ isStorageAvailable = "false" /\ storageMode = "ok"
  /\ lastOp.op = "setTheme" /\ appTheme = "dark"
  /\ \A k \in Keys : storage[k] = NoItem

\* C14: in one process the "storage unavailable" warning is shown at most
\* once, however many keys are initialised while the store is unavailable.
C14_UnavailableWarnedOnce == alertCount["storageUnavailable"] <= 1

\* All seven keys, the one of Settings included, were initialised on an
\* unavailable store, and the warning was shown once.
C14_Witness ==
  /\ isStorageAvailable = "false"
  /\ \A k \in Keys : hookState[k] # "unmounted"
  /\ alertCount["storageUnavailable"] = 1

\* C15: in one process the "corrupted data" warning is shown at most once,
\* however many keys hold a stored string that does not decode.
C15_CorruptedWarnedOnce == alertCount["corrupted"] <= 1

\* C16: in one session the write-failure warning is shown at most once,
\* however many writes fail, and a handler whose write fails still leaves
\* its update in the state in memory.
C16_WriteFailureWarnedOnce ==
  /\ alertCount["writeFailed"] <= 1
  /\ (lastOp.op = "setTheme" /\ "writeFailed" \in alerts)
       => appTheme = lastOp.str

\* The list without its i-th element.
Without(list, i) == SubSeq(list, 1, i - 1) \o SubSeq(list, i + 1, Len(list))

\* C17: a transaction that carries an event id contributes nothing to the
\* dashboard totals, the analytics rows, the history buckets and the income
\* total of Settings (each is what it would be without the transaction), and
\* adds its amount to the spent amount of its own event only, in the event
\* list and in the event detail.
C17_EventTransactionsApart ==
  \A i \in 1..Len(transactions) :
    transactions[i].eventId # 0 =>
      LET t == transactions[i]
          rest == Without(transactions, i)
      IN /\ DashboardView(transactions) = DashboardView(rest)
         /\ AnalyticsView(transactions, budgets, categories)
              = AnalyticsView(rest, budgets, categories)
         /\ HistoryView(transactions) = HistoryView(rest)
         /\ SettingsView(transactions) = SettingsView(rest)
         /\ \A j \in 1..Len(events) :
              LET e == events[j]
                  own == IF e.id = t.eventId THEN t.amount ELSE 0
              IN /\ EventCard(transactions, e).spent
                      = EventCard(rest, e).spent + own
                 /\ EventDetailSummary(transactions, e).spent
                      = EventDetailSummary(rest, e).spent + own

\* The detail of event 101 is shown; the list holds an expense of the
\* current month without event and an expense of the event: the dashboard
\* would count the first only, the event the second only.
C17_Witness ==
  /\ selectedEventId = 101 /\ lastOp.op = "selectEvent"
  /\ Len(transactions) = 2
  /\ transactions[1].eventId = 0 /\ transactions[1].type = "expense"
  /\ transactions[1].date = Today /\ transactions[1].amount = 2
  /\ transactions[2].eventId = 101 /\ transactions[2].amount = 1
  /\ transactions[2].date = Today
  /\ DashboardView(transactions).totalExpenses = 2
  /\ EventDetailSummary(transactions, events[1]).spent = 1
  /\ EventCard(transactions, events[2]).spent = 0

\* The sum of the amounts of the transactions of a type, taken over the
\* positions of the list in no particular order.
RECURSIVE AmountAt(_, _)
AmountAt(list, positions) ==
  IF positions = {} THEN 0
  ELSE LET i == CHOOSE i \in positions : TRUE
       IN list[i].amount + AmountAt(list, positions \ {i})
TotalOf(list, type) ==
  AmountAt(list, {i \in 1..Len(list) : list[i].type = type})

\* The totals of a list are the sums of its incomes and of its expenses and
\* their difference.
TotalsRight(list) ==
  LET totals == DashboardTotals(list)
  IN /\ totals.totalIncome = TotalOf(list, "income")
     /\ totals.totalExpenses = TotalOf(list, "expense")
     /\ totals.balance = totals.totalIncome - totals.totalExpenses
     /\ list = <<>> => totals = [totalIncome |-> 0, totalExpenses |-> 0,
                                  balance |-> 0]

\* C18: the month totals of every list are the sum of the income amounts,
\* the sum of the expense amounts, and income minus expenses; those of the
\* empty list are 0, 0 and 0.  (Checked on the list the dashboard is given
\* and on the two lists it is cut from.)
C18_MonthTotals ==
  /\ TotalsRight(currentMonthTransactions)
  /\ TotalsRight(mainTransactions)
  /\ TotalsRight(transactions)

\* The dashboard shows a month with an income of 1 and an expense of 2: the
\* balance is negative.
C18_Witness ==
  /\ activeView = "dashboard" /\ selectedEventId = 0
  /\ lastOp.op = "setView"
  /\ Len(currentMonthTransactions) = 2
  /\ DashboardTotals(currentMonthTransactions)
       = [totalIncome |-> 1, totalExpenses |-> 2, balance |-> -1]

\* The expenses the analytics are computed from, and what a category spent
\* and was budgeted according to them.
SpentOn(c) ==
  AmountAt(currentMonthTransactions,
           {i \in 1..Len(currentMonthTransactions) :
              /\ currentMonthTransactions[i].type = "expense"
              /\ currentMonthTransactions[i].categoryId = c.id})
BudgetedFor(c) ==
  IF \E i \in 1..Len(currentMonthBudget) : currentMonthBudget[i].categoryId = c.id
  THEN LET i == CHOOSE i \in 1..Len(currentMonthBudget) :
                  /\ currentMonthBudget[i].categoryId = c.id
                  /\ \A j \in 1..(i - 1) : currentMonthBudget[j].categoryId # c.id
       IN currentMonthBudget[i].amount
  ELSE 0
RowsOf(c) ==
  LET data == AnalyticsView(transactions, budgets, categories)
  IN {data[i] : i \in {j \in 1..Len(data) : data[j].name = c.name}}

\* C19: a category has a row in the analytics iff its spent or its budgeted
\* amount is not zero; the row holds the sum of the category's expenses and
\* its budget entry (or 0); the row is flagged over budget iff spent >
\* budgeted and budgeted > 0, so a category with spending and no budget has
\* a row that is not flagged.
C19_SpendVsBudget ==
  \A k \in 1..Len(categories) :
    LET c == categories[k]
    IN /\ RowsOf(c) # {} <=> (SpentOn(c) # 0 \/ BudgetedFor(c) # 0)
       /\ Cardinality(RowsOf(c)) <= 1
       /\ \A row \in RowsOf(c) :
            /\ row.spent = SpentOn(c) /\ row.budget = BudgetedFor(c)
            /\ RowOverBudget(row)
                 <=> (SpentOn(c) > BudgetedFor(c) /\ BudgetedFor(c) > 0)
       /\ (SpentOn(c) > 0 /\ BudgetedFor(c) = 0)
            => \E row \in RowsOf(c) : ~RowOverBudget(row)

\* The analytics are shown with two rows: groceries over its budget, and
\* "other" with spending and no budget, which is not flagged.
C19_Witness ==
  /\ activeView = "analytics" /\ selectedEventId = 0
  /\ LET data == AnalyticsView(transactions, budgets, categories)
     IN /\ Len(data) = 2
        /\ \E i, j \in 1..2 :
             /\ data[i].name = "category_groceries" /\ RowOverBudget(data[i])
             /\ data[j].name = "category_other" /\ data[j].budget = 0
             /\ data[j].spent = 1 /\ ~RowOverBudget(data[j])

\* The progress of an event without budget is as claimed.
ZeroBudgetRight(progress) ==
  /\ progress.spent = 0 => progress.percentage = 0 /\ ~progress.isOverBudget
  /\ progress.spent > 0 => progress.percentage = 100 /\ progress.isOverBudget

\* C20: for an event with budget 0, in the event list and in the event
\* detail: with nothing spent the percentage is 0 and the event is not over
\* budget; with something spent the percentage is 100 and it is over budget.
C20_ZeroBudgetProgress ==
  \A j \in 1..Len(events) :
    events[j].budget = 0 =>
      /\ (activeView = "events" /\ selectedEventId = 0)
           => ZeroBudgetRight(EventCard(transactions, events[j]))
      /\ selectedEventId = events[j].id
           => ZeroBudgetRight(EventDetailSummary(transactions, events[j]))

historicalData == HistoryView(transactions)
PlacesOf(t) ==
  {<<m, p>> \in (DOMAIN historicalData) \X (1..Len(transactions)) :
     /\ p <= Len(historicalData[m].transactions)
     /\ historicalData[m].transactions[p] = t}

\* C22: the history buckets partition the transactions without event that
\* are not of the current month: each is listed once, in the bucket of the
\* month key of its date; a bucket lists nothing else, so no transaction of
\* the current month; and the income and the expenses of a bucket are the
\* sums of the amounts of its income and its expense transactions.
C22_HistoryPartition ==
  /\ \A i \in 1..Len(transactions) :
       LET t == transactions[i]
       IN IF t.eventId = 0 /\ t.date[1] # CurrentMonthKey
          THEN PlacesOf(t) = {pl \in PlacesOf(t) : pl[1] = t.date[1]}
               /\ Cardinality(PlacesOf(t)) = 1
          ELSE PlacesOf(t) = {}
  /\ \A m \in DOMAIN historicalData :
       LET bucket == historicalData[m]
       IN /\ \A p \in 1..Len(bucket.transactions) :
               \E i \in 1..Len(transactions) :
                 transactions[i] = bucket.transactions[p]
          /\ bucket.income = TotalOf(bucket.transactions, "income")
          /\ bucket.expenses = TotalOf(bucket.transactions, "expense")

\* The history is shown for a list with a transaction of the current month
\* and one of the month before: one bucket, holding the second only.
C22_Witness ==
  /\ activeView = "history" /\ selectedEventId = 0 /\ lastOp.op = "setView"
  /\ Len(transactions) = 2
  /\ transactions[1].date = Today /\ transactions[1].eventId = 0
  /\ transactions[2].date = LastMonth /\ transactions[2].eventId = 0
  /\ DOMAIN historicalData = {PrevMonthKey}
  /\ historicalData[PrevMonthKey].transactions = <<transactions[2]>>

\* C23: every bucket the history view lists is of a month before the
\* current one, whatever the dates of the transactions added with the form.
C23_HistoryShowsPastOnly ==
  (activeView = "history" /\ selectedEventId = 0)
    => \A m \in DOMAIN historicalData :
         MonthIndex(m) < MonthIndex(CurrentMonthKey)

\* C24: after a save of the budget fields, however they were edited, the
\* budget list stored for the current month key has at most one entry per
\* category id and only amounts above 0: it is the fields with a positive
\* amount, those edited to 0, to blank or to a negative number left out.
C24_SavedBudgetsClean ==
  [][lastOp'.op = "saveBudgets" =>
       LET saved == CurrentMonthBudgetAt(budgets', currentMonthKey)
       IN /\ \A i, j \in 1..Len(saved) :
               saved[i].categoryId = saved[j].categoryId => i = j
          /\ \A i \in 1..Len(saved) : saved[i].amount > 0
          /\ \A i \in 1..Len(localBudgets) :
               localBudgets[i].amount > 0
                 <=> \E j \in 1..Len(saved) : saved[j] = localBudgets[i]]_vars

\* A save of two fields of which one held no positive amount: one entry was
\* stored.
C24_Witness ==
  /\ lastOp.op = "saveBudgets" /\ lastOp.id = 2
  /\ Len(CurrentMonthBudgetAt(budgets, currentMonthKey)) = 1

\* C28: a confirmed deletion of a category changes the transactions and the
\* categories only: the budgets are the same for every month key (and so
\* are the events and the budget fields), so an entry of the deleted
\* category stays stored; and the next save stores it again, its field
\* being as it was.
C28_DeleteCategoryKeepsBudgets ==
  [][/\ (lastOp'.op = "deleteCategory" /\ lastOp'.ok)
         => /\ budgets' = budgets
            /\ events' = events
            /\ localBudgets' = localBudgets
            /\ lastOp'.str \notin Ids(categories')
     /\ lastOp'.op = "saveBudgets"
         => LET stored == CurrentMonthBudgetAt(budgets, currentMonthKey)
                saved == CurrentMonthBudgetAt(budgets', currentMonthKey)
            IN \A i \in 1..Len(stored) :
                 (/\ stored[i].categoryId \notin Ids(categories)
                  /\ \E k \in 1..Len(localBudgets) :
                       localBudgets[k] = stored[i])
                   => \E j \in 1..Len(saved) : saved[j] = stored[i]]_vars

\* The budgets were saved after the category groceries was deleted, and
\* they hold an entry for it.
C28_Witness ==
  /\ lastOp.op = "saveBudgets"
  /\ "groceries" \notin Ids(categories)
  /\ \E i \in 1..Len(CurrentMonthBudgetAt(budgets, currentMonthKey)) :
       CurrentMonthBudgetAt(budgets, currentMonthKey)[i].categoryId
         = "groceries"

\* C25: the total income that Settings shows is the income of the current
\* month, the figure the dashboard shows: the sum of the amounts of the
\* income transactions without event whose date is in the current month.
C25_SettingsIncomeOfMonth ==
  SettingsRendered(activeView, selectedEventId)
    => /\ SettingsView(transactions)
           = DashboardView(transactions).totalIncome
       /\ SettingsView(transactions)
           = TotalOf(currentMonthTransactions, "income")

\* C26: the event id of every transaction that carries one is the id of an
\* event of the event collection, in every state reached by adding
\* transactions, by creating, editing and deleting events and by importing a
\* file whose transactions refer to its own events only, in any order of
\* the completion of the file read and the use of the forms.
C26_EventIdsResolve ==
  \A i \in 1..Len(transactions) :
    transactions[i].eventId # 0 => transactions[i].eventId \in Ids(events)

\* C27: the selected event, whose detail is shown, is always an event of the
\* event collection; and no event is selected after the selected event was
\* deleted, after an import took it out of the collection, and after a
\* main view was chosen.
C27_SelectionResolves ==
  [][/\ selectedEventId' # 0 => selectedEventId' \in Ids(events')
     /\ (lastOp'.op = "deleteEvent" /\ lastOp'.ok
          /\ lastOp'.id = selectedEventId) => selectedEventId' = 0
     /\ (lastOp'.op = "onload" /\ lastOp'.ok
          /\ selectedEventId \notin Ids(events')) => selectedEventId' = 0
     /\ lastOp'.op = "setView" => selectedEventId' = 0]_vars

\* An import has just replaced the events while the expense form of an
\* event was open: that event is gone and nothing is selected.
C27_Witness ==
  /\ lastOp.op = "onload" /\ lastOp.ok
  /\ transactionModalContext.open
  /\ transactionModalContext.eventId # 0
  /\ transactionModalContext.eventId \notin Ids(events)
  /\ selectedEventId = 0 /\ activeView = "events"

\* C29: on an available store, once a key has been loaded and its first
\* effect has run, the store holds for it the serialization of the value in
\* memory, though the user changed nothing: a key that was absent now holds
\* its default, and a string that did not decode has been replaced by the
\* default, so it is no longer in the store.
C29_LoadWritesBack ==
  \A k \in Keys :
    (storageMode = "ok" /\ hookState[k] = "mounted")
      => /\ storage[k] = JSON_stringify(storedValue[k])
         /\ storage[k] \notin {NoItem, EmptyText, Garbage}

\* The mount is over on a working store on which two or more keys held
\* strings that did not decode: keys that were absent or undecodable hold
\* their defaults, and a key with a saved value holds that value.
C29_Witness ==
  /\ Mounted /\ storageMode = "ok"
  /\ alertCount["corrupted"] = 2
  /\ storage["categories"] = JSON_stringify(DEFAULT_CATEGORIES)
  /\ storage["transactions"] = JSON_stringify(<<>>)
  /\ storage["language"] = JSON_stringify("en")
  /\ storage["events"] = JSON_stringify(SavedValue("events"))

\* The transactions of the current-month view, as App computed them at its
\* latest render, and those of the buckets of the history, as its memo
\* holds them.
InCurrentMonthView(t) ==
  \E i \in 1..Len(currentMonthTransactions) : currentMonthTransactions[i] = t
InHistoryBuckets(t) == PlacesOf(t) # {}

\* C30: whenever App has rendered with the month key that is current, every
\* transaction without event is in the current-month view or in one bucket
\* of the history, and not in both, also after the month has changed while
\* the application stayed open and the transactions were not modified.
C30_MonthViewsCover ==
  currentMonthKey = clockMonth
    => \A i \in 1..Len(transactions) :
         transactions[i].eventId = 0
           => /\ InCurrentMonthView(transactions[i])
                   # InHistoryBuckets(transactions[i])
              /\ Cardinality(PlacesOf(transactions[i])) <= 1

====
